---- MODULE Spec2Model ----
(***************************************************************************)
(* A model of the zewif interchange library: the top-level Zewif container *)
(* (zewif_impl.rs), the fixed-width Blob<N> (blob.rs) and the envelope     *)
(* codecs of Address, SaplingSentOutput and SproutWitness.                 *)
(*                                                                         *)
(* The specifications share the variables; each drives one subsystem and   *)
(* leaves the variables of the others at their initial values:             *)
(*   SpecZewif  the container, its encoding and decoding                   *)
(*   SpecTxMap  the operations on the container's transaction map          *)
(*   SpecBlob   Blob<N> construction, hex text and indexing                *)
(*   SpecCodec  Address / SaplingSentOutput / SproutWitness round trips    *)
(*   SpecDecode the decoders on documents that were changed on their way   *)
(*   SpecParser ReceiverType::parse on byte buffers, and Position          *)
(*   SpecWitness a commitment tree, a witness of one leaf and its path     *)
(*   SpecLeaf   the CBOR, envelope and text forms of Blob<N>, ReceiverType *)
(***************************************************************************)
EXTENDS Integers, Sequences, FiniteSets, TLC

(***************************************************************************)
(* Bounds of the model.                                                    *)
(***************************************************************************)
\* most wallets a container is given
MaxWallets == 3
\* largest index an entity carries before a container assigns its position
MaxIndex == 2
\* Blob<N> is instantiated for N in 0..MaxBlobLen (and for the documented N = 4)
MaxBlobLen == 1
\* longest slice or vector handed to from_slice / from_vec
MaxSliceLen == 2
\* longest enumerated text handed to from_hex
MaxHexLen == 4
\* longest 'filled' list of a witness
MaxFilled == 2
\* most changes made to a document before it is decoded
MaxTampers == 2
\* longest enumerated buffer handed to a Parser
MaxBufLen == 2
\* trees of depth 1..MaxDepth are filled to the last leaf
MaxDepth == 2
\* most leaves offered to a tree
MaxAppends == 5

VARIABLES
    zewif,          \* the Zewif value: id, wallets, transactions, ...
    zpc,            \* "build" | "encoded" | "decoded"
    carriedOther,   \* history: some add_wallet got a wallet carrying an index other than its position
    callOrder,      \* history: the networks of the wallets, in add_wallet call order
    txlog,          \* history: per key, the transaction last passed to add_transaction
    replaced,       \* history: set_transactions was called
    lookup,         \* the last get_transaction call: <<txid, result>>, or <<>>
    zenv,           \* the envelope Envelope::from(zewif) produced, or <<>>
    zdec            \* the result of Zewif::try_from(zenv), or <<>>

zvars == <<zewif, zpc, carriedOther, callOrder, txlog, replaced, lookup, zenv, zdec>>

VARIABLES
    bn,             \* the N of the Blob<N> type in use
    blob,           \* the constructed blob's bytes, or <<>> before construction
    built,          \* history: the bytes the blob was constructed from
    bop             \* the last Blob operation: its name, inputs and result

bvars == <<bn, blob, built, bop>>

VARIABLES
    ckind,          \* the entity type in use: Address, SaplingSentOutput or SproutWitness
    cpc,            \* "none" | "build" | "encoded" | "decoded"
    ent,            \* the entity value, or <<>> before construction
    cenv,           \* the envelope Envelope::from(entity) produced, or <<>>
    cdec,           \* the result of T::try_from(cenv), or <<>>
    positioned      \* history: set_index has given the entity its position

cvars == <<ckind, cpc, ent, cenv, cdec, positioned>>

VARIABLES
    dkind,          \* the entity type a received document is decoded as
    doc,            \* the received document
    dsteps,         \* how many changes were made to the document on its way
    dres            \* the result of T::try_from(doc), or <<>>

dvars == <<dkind, doc, dsteps, dres>>

VARIABLES
    pbuf,           \* the byte buffer a Parser reads
    pcur,           \* the Parser's cursor: how many bytes of pbuf are consumed
    pcall,          \* the last ReceiverType::parse call: cursor before, result; or <<>>
    pos,            \* a Position value, or <<>>
    posin,          \* history: the integer the Position was made from, and its type
    posout          \* the u32 taken back from the Position, or <<>>

pvars == <<pbuf, pcur, pcall, pos, posin, posout>>

VARIABLES
    wdepth,         \* the depth D of the commitment tree
    wtree,          \* the tree's frontier after the appends so far
    appended,       \* history: how many leaves the tree took
    wit,            \* a witness of the tree's last leaf when it was created, or <<>>
    wpath           \* the path last asked of the witness, or <<>>

wvars == <<wdepth, wtree, appended, wit, wpath>>

VARIABLES
    ltype,          \* the leaf type in use: Blob or ReceiverType
    ln,             \* the N of the Blob<N>; 0 for a ReceiverType
    lcodec,         \* the conversion pair in use: "cbor", "envelope" or "text"
    lsrc,           \* history: the value that was encoded, or <<>>
    lwire,          \* the encoded form, made by encoding or received; or <<>>
    lres            \* the result of decoding lwire, or <<>>

lvars == <<ltype, ln, lcodec, lsrc, lwire, lres>>

vars == <<zvars, bvars, cvars, dvars, pvars, wvars, lvars>>

\* the variables each specification leaves alone
notZewif == <<bvars, cvars, dvars, pvars, wvars, lvars>>
notBlob == <<zvars, cvars, dvars, pvars, wvars, lvars>>
notCodec == <<zvars, bvars, dvars, pvars, wvars, lvars>>
notDecode == <<zvars, bvars, cvars, pvars, wvars, lvars>>
notParser == <<zvars, bvars, cvars, dvars, wvars, lvars>>
notWitness == <<zvars, bvars, cvars, dvars, pvars, lvars>>
notLeaf == <<zvars, bvars, cvars, dvars, pvars, wvars>>

(***************************************************************************)
(* Option<T>: None is the empty sequence, Some(v) the one-element one.     *)
(***************************************************************************)
None == <<>>
Some(v) == <<v>>
IsSome(o) == o # <<>>
Unwrap(o) == o[1]

(***************************************************************************)
(* Result<T, E>.  An error carries its chain of contexts, outermost first, *)
(* as anyhow's .context(..) builds it.                                     *)
(***************************************************************************)
Ok(v) == [ok |-> TRUE, val |-> v]
Err(e) == [ok |-> FALSE, err |-> e]
Context(r, name) == IF r.ok THEN r ELSE Err(<<name>> \o r.err)

(***************************************************************************)
(* The document model (bc_envelope).  A CBOR leaf is a tagged value; an    *)
(* envelope has a subject, its type tags ('isA' assertions) and a SET of   *)
(* assertions (predicate, object), each object an envelope itself.  The    *)
(* set keeps no insertion order and no duplicates.                         *)
(***************************************************************************)
CborUint(n) == [major |-> "uint", uint |-> n]
CborText(s) == [major |-> "text", text |-> s]
CborBytes(b) == [major |-> "bytes", bytes |-> b]
CborArray(a) == [major |-> "array", array |-> a]
CborArid(a) == [major |-> "arid", arid |-> a]
\* the value a leaf carries, held in the field its major type names
CborVal(c) == c[c.major]

Leaf(c) == [subject |-> c, types |-> {}, assertions |-> {}]
EnvelopeNew(subject) == [subject |-> subject, types |-> {}, assertions |-> {}]
add_type(e, t) == [e EXCEPT !.types = @ \cup {t}]
add_assertion(e, p, o) == [e EXCEPT !.assertions = @ \cup {[pred |-> p, obj |-> o]}]
add_optional_assertion(e, p, o) ==
    IF IsSome(o) THEN add_assertion(e, p, Unwrap(o)) ELSE e

objects_for_predicate(e, p) == {a.obj : a \in {b \in e.assertions : b.pred = p}}

check_type_envelope(e, t) ==
    IF t \in e.types THEN Ok(TRUE) ELSE Err(<<"TypeMismatch">>)

\* exactly one assertion with the predicate
object_for_predicate(e, p) ==
    LET os == objects_for_predicate(e, p) IN
    IF os = {} THEN Err(<<"MissingAssertion">>)
    ELSE IF Cardinality(os) > 1 THEN Err(<<"AmbiguousAssertion">>)
    ELSE Ok(CHOOSE o \in os : TRUE)

\* zero or one assertion with the predicate
optional_object_for_predicate(e, p) ==
    LET os == objects_for_predicate(e, p) IN
    IF os = {} THEN Ok(None)
    ELSE IF Cardinality(os) > 1 THEN Err(<<"AmbiguousAssertion">>)
    ELSE Ok(Some(CHOOSE o \in os : TRUE))

\* the subject as a CBOR leaf of the wanted major type
extract_subject(e, major) ==
    IF e.subject.major = major THEN Ok(CborVal(e.subject)) ELSE Err(<<"InvalidFormat">>)

\* every order in which the elements of S can be enumerated
Enumerations(S) ==
    {s \in [1..Cardinality(S) -> S] : \A i, j \in 1..Cardinality(S) : i # j => s[i] # s[j]}

(***************************************************************************)
(* Blob<N> (blob.rs).  Bytes are 0..255; text is a sequence of characters. *)
(***************************************************************************)
ScenarioLen == 4
BlobSizes == 0..MaxBlobLen \cup {ScenarioLen}
ByteSample == {0, 1, 171, 255}
ScenarioBytes == <<1, 2, 3, 4>>
SliceInputs ==
    UNION {[1..l -> ByteSample] : l \in 0..MaxSliceLen} \cup {ScenarioBytes}
HexAlphabet == {"0", "1", "a", "F", "g"}
ScenarioHex == <<"0", "1", "0", "2", "0", "3", "0", "4">>
ScenarioHexShort == <<"0", "1", "0", "2">>
HexInputs ==
    UNION {[1..l -> HexAlphabet] : l \in 0..MaxHexLen} \cup {ScenarioHex, ScenarioHexShort}

LowerHexDigits ==
    <<"0", "1", "2", "3", "4", "5", "6", "7", "8", "9", "a", "b", "c", "d", "e", "f">>
UpperHexDigits ==
    <<"0", "1", "2", "3", "4", "5", "6", "7", "8", "9", "A", "B", "C", "D", "E", "F">>

IsHexDigit(c) == \E i \in 1..16 : LowerHexDigits[i] = c \/ UpperHexDigits[i] = c
HexVal(c) == (CHOOSE i \in 1..16 : LowerHexDigits[i] = c \/ UpperHexDigits[i] = c) - 1

\* hex::encode: two lowercase digits per byte, high nibble first
hex_encode(bytes) ==
    [i \in 1..(2 * Len(bytes)) |->
        LET b == bytes[(i + 1) \div 2] IN
        IF i % 2 = 1 THEN LowerHexDigits[(b \div 16) + 1] ELSE LowerHexDigits[(b % 16) + 1]]

\* hex::decode: odd length is refused first, then the first non-digit
hex_decode(hex) ==
    IF Len(hex) % 2 # 0 THEN Err([kind |-> "OddLength"])
    ELSE IF \E i \in 1..Len(hex) : ~IsHexDigit(hex[i])
    THEN LET i == CHOOSE j \in 1..Len(hex) :
                      /\ ~IsHexDigit(hex[j])
                      /\ \A k \in 1..(j - 1) : IsHexDigit(hex[k])
         IN  Err([kind |-> "InvalidHexCharacter", c |-> hex[i], index |-> i - 1])
    ELSE Ok([i \in 1..(Len(hex) \div 2) |->
                HexVal(hex[2 * i - 1]) * 16 + HexVal(hex[2 * i])])

\* the errors of the constructors
TryFromSliceError == [kind |-> "TryFromSliceError"]
SliceInvalid(expected, actual) ==
    [kind |-> "SliceInvalid", expected |-> expected, actual |-> actual]
HexInvalid(e) == [kind |-> "HexInvalid", cause |-> e]

BlobNew(data) == data
BlobDefault(n) == [i \in 1..n |-> 0]
len(n, b) == n
is_empty(n, b) == n = 0
to_vec(b) == b
as_slice(b) == b
as_bytes(b) == b

\* <[u8; N]>::try_from(data): the slice must have exactly N bytes
from_slice(n, data) ==
    IF Len(data) = n THEN Ok(data) ELSE Err(TryFromSliceError)

from_vec(n, data) == from_slice(n, data)

from_hex_counting_digits(n, hex) ==
    LET data == hex_decode(hex) IN
    IF ~data.ok THEN Err(HexInvalid(data.err))
    ELSE IF from_vec(n * 2, data.val).ok THEN Ok(data.val)
    ELSE Err(SliceInvalid(n * 2, Len(hex)))
from_hex(n, hex) ==
    LET data == hex_decode(hex) IN
    IF ~data.ok THEN Err(HexInvalid(data.err))
    ELSE IF from_vec(n, data.val).ok THEN from_vec(n, data.val)
    ELSE Err(SliceInvalid(n * 2, Len(hex)))

\* Index<usize> / IndexMut<usize>, for an index in range
blob_index(b, i) == b[i + 1]
blob_index_mut(b, i, x) == [b EXCEPT ![i + 1] = x]

\* Display: the hex text; Debug: Blob<N>(hex)
Display(b) == hex_encode(b)
Debug(n, b) == [name |-> "Blob", n |-> n, hex |-> hex_encode(b)]

(***************************************************************************)
(* SpecBlob: one constructor call for a Blob<N>; when it yields a blob,    *)
(* the blob is then read, indexed and displayed.                           *)
(***************************************************************************)
BlobOp(op, bytes, text, res) == [op |-> op, bytes |-> bytes, text |-> text, res |-> res]
NoBlobOp == BlobOp("none", <<>>, <<>>, <<>>)

IdleBlobVars ==
    /\ bn = 0
    /\ blob = None
    /\ built = None
    /\ bop = NoBlobOp

InitBlobVars ==
    /\ bn \in BlobSizes
    /\ blob = None
    /\ built = None
    /\ bop = NoBlobOp

\* a constructor's result becomes the blob when it succeeded
Constructed(op, bytes, text, res) ==
    /\ bop' = BlobOp(op, bytes, text, res)
    /\ blob' = IF res.ok THEN Some(res.val) ELSE None
    /\ built' = IF res.ok THEN Some(res.val) ELSE None
    /\ UNCHANGED bn

New ==
    /\ bop = NoBlobOp
    /\ \E data \in {d \in SliceInputs : Len(d) = bn} :
           Constructed("new", data, <<>>, Ok(BlobNew(data)))
    /\ UNCHANGED notBlob

Default ==
    /\ bop = NoBlobOp
    /\ Constructed("default", <<>>, <<>>, Ok(BlobDefault(bn)))
    /\ UNCHANGED notBlob

FromSlice ==
    /\ bop = NoBlobOp
    /\ \E data \in SliceInputs : Constructed("from_slice", data, <<>>, from_slice(bn, data))
    /\ UNCHANGED notBlob

FromVec ==
    /\ bop = NoBlobOp
    /\ \E data \in SliceInputs : Constructed("from_vec", data, <<>>, from_vec(bn, data))
    /\ UNCHANGED notBlob

FromHex ==
    /\ bop = NoBlobOp
    /\ \E hex \in HexInputs : Constructed("from_hex", <<>>, hex, from_hex(bn, hex))
    /\ UNCHANGED notBlob

\* len, is_empty, to_vec, as_slice, as_bytes, Vec::from, <[u8; N]>::from
Read ==
    /\ IsSome(blob)
    /\ \/ bop' = BlobOp("len", <<>>, <<>>, Ok(len(bn, Unwrap(blob))))
       \/ bop' = BlobOp("is_empty", <<>>, <<>>, Ok(is_empty(bn, Unwrap(blob))))
       \/ bop' = BlobOp("to_vec", <<>>, <<>>, Ok(to_vec(Unwrap(blob))))
       \/ bop' = BlobOp("as_slice", <<>>, <<>>, Ok(as_slice(Unwrap(blob))))
       \/ bop' = BlobOp("as_bytes", <<>>, <<>>, Ok(as_bytes(Unwrap(blob))))
    /\ UNCHANGED <<bn, blob, built>>
    /\ UNCHANGED notBlob

IndexRead ==
    /\ IsSome(blob)
    /\ \E i \in 0..(bn - 1) :
           bop' = BlobOp("index", <<i>>, <<>>, Ok(blob_index(Unwrap(blob), i)))
    /\ UNCHANGED <<bn, blob, built>>
    /\ UNCHANGED notBlob

IndexWrite ==
    /\ IsSome(blob)
    /\ \E i \in 0..(bn - 1), x \in ByteSample :
           /\ blob' = Some(blob_index_mut(Unwrap(blob), i, x))
           /\ bop' = BlobOp("index_mut", <<i, x>>, <<>>, Ok(x))
    /\ UNCHANGED <<bn, built>>
    /\ UNCHANGED notBlob

ShowDisplay ==
    /\ IsSome(blob)
    /\ bop' = BlobOp("display", <<>>, Display(Unwrap(blob)), Ok(TRUE))
    /\ UNCHANGED <<bn, blob, built>>
    /\ UNCHANGED notBlob

\* from_hex applied to the text Display just produced
ParseDisplayed ==
    /\ IsSome(blob)
    /\ bop.op = "display"
    /\ bop' = BlobOp("from_hex_of_display", <<>>, bop.text, from_hex(bn, bop.text))
    /\ UNCHANGED <<bn, blob, built>>
    /\ UNCHANGED notBlob

NextBlob ==
    \/ New
    \/ Default
    \/ FromSlice
    \/ FromVec
    \/ FromHex
    \/ Read
    \/ IndexRead
    \/ IndexWrite
    \/ ShowDisplay
    \/ ParseDisplayed

(***************************************************************************)
(* Claims about Blob<N>.                                                   *)
(***************************************************************************)
\* C5: from_slice and from_vec succeed exactly when the source has N bytes,
\* returning those bytes; otherwise they fail with a length-mismatch error
\* that reports expected = N and actual = the source's length.
C5_FromSliceReportsLengths ==
    bop.op \in {"from_slice", "from_vec"} =>
        bop.res = IF Len(bop.bytes) = bn
                  THEN Ok(bop.bytes)
                  ELSE Err(SliceInvalid(bn, Len(bop.bytes)))

\* what the code does: success exactly when the length is N, no truncation
\* and no padding, and an error without lengths otherwise
C5_FromSliceLengthChecked ==
    bop.op \in {"from_slice", "from_vec"} =>
        /\ bop.res.ok <=> Len(bop.bytes) = bn
        /\ bop.res.ok => bop.res.val = bop.bytes /\ blob = Some(bop.bytes)
        /\ ~bop.res.ok => bop.res.err = TryFromSliceError /\ blob = None

\* C6: from_hex on valid hex of L # N bytes fails with the length-mismatch
\* error reporting expected = N and actual = L (both in bytes); on invalid
\* hex it fails with the hex-decode error; on N bytes it yields them.
C6_FromHexReportsByteLengths ==
    bop.op = "from_hex" =>
        LET data == hex_decode(bop.text) IN
        bop.res = IF ~data.ok THEN Err(HexInvalid(data.err))
                  ELSE IF Len(data.val) # bn THEN Err(SliceInvalid(bn, Len(data.val)))
                  ELSE Ok(data.val)

\* C7: the Display form of a blob is the 2N-character lowercase hex text of
\* its bytes, and from_hex of that text returns the blob.
C7_DisplayParsesBack ==
    /\ bop.op = "display" =>
           /\ Len(bop.text) = 2 * bn
           /\ \A i \in 1..Len(bop.text) : \E d \in 1..16 : LowerHexDigits[d] = bop.text[i]
           /\ \A i \in 1..bn :
                  /\ bop.text[2 * i - 1] = LowerHexDigits[(Unwrap(blob)[i] \div 16) + 1]
                  /\ bop.text[2 * i] = LowerHexDigits[(Unwrap(blob)[i] % 16) + 1]
    /\ bop.op = "from_hex_of_display" => bop.res = Ok(Unwrap(blob))

C7_Witness ==
    /\ bop.op = "from_hex_of_display"
    /\ bn = 1
    /\ Unwrap(blob) = <<171>>
    /\ bop.text = <<"a", "b">>
    /\ bop.res.ok

\* C8: a constructed blob keeps its length N and the bytes it was
\* constructed from across every public operation.
C8_BlobImmutable ==
    IsSome(blob) => Len(Unwrap(blob)) = bn /\ blob = built

\* what the code does keep: the length
C8_BlobLengthFixed ==
    IsSome(blob) => Len(Unwrap(blob)) = bn /\ Len(Unwrap(built)) = bn

(***************************************************************************)
(* Values of the container's parts.                                        *)
(***************************************************************************)
Networks == {"Main", "Test"}
TxIds == {"t1", "t2"}
RawTxs == {"a", "b"}
Transactions == [txid : TxIds, raw : RawTxs]
Arids == {"arid1", "arid2"}
BlockHeights == {0, 2000000}
BlockHashes == {"h0", "h1"}
AttachmentPool == {"att"}

\* ZewifWallet::new(network): index 0 until a container places it
ZewifWalletNew(network) == [index |-> 0, network |-> network]
\* Indexed::set_index
set_index(entity, index) == [entity EXCEPT !.index = index]
\* Transaction::txid
txid(tx) == tx.txid

EmptyTransactions == [k \in TxIds |-> None]
TransactionMaps == [TxIds -> {None} \cup {Some(tx) : tx \in Transactions}]

(***************************************************************************)
(* Zewif (zewif_impl.rs).  export_height_block_hash is a field of the      *)
(* struct that neither new nor try_from assigns: its value there is an     *)
(* arbitrary block hash, passed in as `uninit`.                            *)
(***************************************************************************)
ZewifNew(arid, export_height, uninit) ==
    [id |-> arid,
     wallets |-> <<>>,
     transactions |-> EmptyTransactions,
     export_height |-> export_height,
     export_height_block_hash |-> uninit,
     attachments |-> {}]

wallets_len(z) == Len(z.wallets)

add_wallet_keep_index(z, wallet) ==
    [z EXCEPT !.wallets = Append(@, wallet)]
add_wallet(z, wallet) ==
    [z EXCEPT !.wallets = Append(@, set_index(wallet, wallets_len(z)))]

add_transaction_if_absent(z, id, transaction) ==
    [z EXCEPT !.transactions[id] = IF IsSome(@) THEN @ ELSE Some(transaction)]
add_transaction(z, id, transaction) ==
    [z EXCEPT !.transactions[id] = Some(transaction)]

get_transaction(z, id) == z.transactions[id]

set_transactions(z, transactions) == [z EXCEPT !.transactions = transactions]

add_attachment(z, a) == [z EXCEPT !.attachments = @ \cup {a}]

\* the keys of a transaction map; HashMap::iter yields one entry per key, in
\* an order of its own
Keys(transactions) == {k \in TxIds : IsSome(transactions[k])}

\* the values of the transaction map
TransactionEntries(z) ==
    {Unwrap(z.transactions[k]) : k \in {j \in TxIds : IsSome(z.transactions[j])}}

(***************************************************************************)
(* Codecs of the container's children and of Attachments.                  *)
(***************************************************************************)
WalletToEnvelope(w) ==
    add_assertion(add_type(EnvelopeNew(CborUint(w.index)), "ZewifWallet"),
                  "network", Leaf(CborText(w.network)))

WalletFromEnvelope(e) ==
    LET ty == Context(check_type_envelope(e, "ZewifWallet"), "ZewifWallet")
        index == Context(extract_subject(e, "uint"), "index")
        network == Context(object_for_predicate(e, "network"), "network")
    IN  IF ~ty.ok THEN ty
        ELSE IF ~index.ok THEN index
        ELSE IF ~network.ok THEN network
        ELSE Ok([index |-> index.val, network |-> CborVal(network.val.subject)])

TransactionToEnvelope(tx) ==
    add_assertion(add_type(EnvelopeNew(CborText(tx.txid)), "Transaction"),
                  "raw", Leaf(CborText(tx.raw)))

TransactionFromEnvelope(e) ==
    LET ty == Context(check_type_envelope(e, "Transaction"), "Transaction")
        id == Context(extract_subject(e, "text"), "txid")
        raw == Context(object_for_predicate(e, "raw"), "raw")
    IN  IF ~ty.ok THEN ty
        ELSE IF ~id.ok THEN id
        ELSE IF ~raw.ok THEN raw
        ELSE Ok([txid |-> id.val, raw |-> CborVal(raw.val.subject)])

RECURSIVE AttachmentsAddToEnvelope(_, _)
AttachmentsAddToEnvelope(attachments, e) ==
    IF attachments = {} THEN e
    ELSE LET a == CHOOSE x \in attachments : TRUE
         IN  AttachmentsAddToEnvelope(attachments \ {a},
                                      add_assertion(e, "attachment", Leaf(CborText(a))))

AttachmentsTryFromEnvelope(e) ==
    LET os == objects_for_predicate(e, "attachment") IN
    IF \E o \in os : o.subject.major # "text" THEN Err(<<"InvalidAttachment">>)
    ELSE Ok({CborVal(o.subject) : o \in os})

\* collect::<Result<Vec<T>>>(): the values of a sequence of decode results,
\* or its first failure
CollectResults(results) ==
    IF \E i \in 1..Len(results) : ~results[i].ok
    THEN results[CHOOSE i \in 1..Len(results) :
                     ~results[i].ok /\ \A j \in 1..(i - 1) : results[j].ok]
    ELSE Ok([i \in 1..Len(results) |-> results[i].val])

\* Vec::sort_by_key(|o| o.index()): a stable sort
RECURSIVE SortByIndex(_)
InsertByIndex(sorted, x) ==
    LET n == Cardinality({i \in 1..Len(sorted) : sorted[i].index <= x.index})
    IN  SubSeq(sorted, 1, n) \o <<x>> \o SubSeq(sorted, n + 1, Len(sorted))
SortByIndex(s) ==
    IF s = <<>> THEN <<>>
    ELSE InsertByIndex(SortByIndex(SubSeq(s, 1, Len(s) - 1)), s[Len(s)])

\* envelope_indexed_objects_for_predicate, given the decode results of the
\* predicate's objects in the order the envelope enumerates them: a failure
\* of an object's decode is passed on under the predicate's name
envelope_indexed_objects_for_predicate(decoded, predicate) ==
    LET objects == CollectResults(decoded) IN
    IF ~objects.ok THEN Context(objects, predicate) ELSE Ok(SortByIndex(objects.val))

\* Envelope::try_objects_for_predicate::<T>, given the decode results of the
\* predicate's objects in the enumeration order
try_objects_for_predicate(decoded) == CollectResults(decoded)

WalletsDecoded(enumerated) ==
    [i \in 1..Len(enumerated) |-> WalletFromEnvelope(enumerated[i])]
TransactionsDecoded(enumerated) ==
    [i \in 1..Len(enumerated) |-> TransactionFromEnvelope(enumerated[i])]

\* .into_iter().map(|tx| (tx.txid(), tx)).collect::<HashMap>(): a later
\* element replaces an earlier one with the same key
CollectByTxid(txs) ==
    [k \in TxIds |->
        LET at == {i \in 1..Len(txs) : txid(txs[i]) = k} IN
        IF at = {} THEN None
        ELSE Some(txs[CHOOSE i \in at : \A j \in at : j <= i])]

\* extract_object_for_predicate::<T>: the one object, as a leaf of that type
extract_object_for_predicate(e, p, major) ==
    LET o == object_for_predicate(e, p) IN
    IF ~o.ok THEN o ELSE extract_subject(o.val, major)

(***************************************************************************)
(* From<Zewif> for Envelope / TryFrom<Envelope> for Zewif                  *)
(***************************************************************************)
\* iter().fold(e, |e, o| e.add_assertion(p, o)), over the objects in the order
\* the iterator yields them
RECURSIVE FoldAssertions(_, _, _)
FoldAssertions(e, p, objects) ==
    IF objects = <<>> THEN e
    ELSE FoldAssertions(add_assertion(e, p, Head(objects)), p, Tail(objects))

ZewifToEnvelope_numbered(value, txOrder) ==
    LET e0 == add_type(EnvelopeNew(CborArid(value.id)), "Zewif")
        e1 == FoldAssertions(e0, "wallet",
                  [i \in 1..Len(value.wallets) |-> WalletToEnvelope(value.wallets[i])])
        e2 == FoldAssertions(e1, "transaction",
                  [i \in 1..Len(txOrder) |->
                      add_assertion(
                          TransactionToEnvelope(Unwrap(value.transactions[txOrder[i]])),
                          "position", Leaf(CborUint(i)))])
        e3 == add_assertion(e2, "export_height", Leaf(CborUint(value.export_height)))
    IN  AttachmentsAddToEnvelope(value.attachments, e3)
\* txOrder: the keys of value.transactions in the order value.transactions.iter()
\* yields their entries
ZewifToEnvelope(value, txOrder) ==
    LET e0 == add_type(EnvelopeNew(CborArid(value.id)), "Zewif")
        e1 == FoldAssertions(e0, "wallet",
                  [i \in 1..Len(value.wallets) |-> WalletToEnvelope(value.wallets[i])])
        e2 == FoldAssertions(e1, "transaction",
                  [i \in 1..Len(txOrder) |->
                      TransactionToEnvelope(Unwrap(value.transactions[txOrder[i]]))])
        e3 == add_assertion(e2, "export_height", Leaf(CborUint(value.export_height)))
    IN  AttachmentsAddToEnvelope(value.attachments, e3)

ZewifTryFrom_unsorted(envelope, walletOrder, txOrder, uninit) ==
    LET ty == check_type_envelope(envelope, "Zewif")
        id == extract_subject(envelope, "arid")
        wallets == try_objects_for_predicate(WalletsDecoded(walletOrder))
        txs == try_objects_for_predicate(TransactionsDecoded(txOrder))
        export_height ==
            Context(extract_object_for_predicate(envelope, "export_height", "uint"),
                    "export_height")
        attachments == Context(AttachmentsTryFromEnvelope(envelope), "attachments")
    IN  IF ~ty.ok THEN ty
        ELSE IF ~id.ok THEN id
        ELSE IF ~wallets.ok THEN wallets
        ELSE IF ~txs.ok THEN txs
        ELSE IF ~export_height.ok THEN export_height
        ELSE IF ~attachments.ok THEN attachments
        ELSE Ok([id |-> id.val,
                 wallets |-> wallets.val,
                 transactions |-> CollectByTxid(txs.val),
                 export_height |-> export_height.val,
                 export_height_block_hash |-> uninit,
                 attachments |-> attachments.val])
ZewifTryFrom(envelope, walletOrder, txOrder, uninit) ==
    LET ty == check_type_envelope(envelope, "Zewif")
        id == extract_subject(envelope, "arid")
        wallets ==
            envelope_indexed_objects_for_predicate(WalletsDecoded(walletOrder), "wallet")
        txs == try_objects_for_predicate(TransactionsDecoded(txOrder))
        export_height ==
            Context(extract_object_for_predicate(envelope, "export_height", "uint"),
                    "export_height")
        attachments == Context(AttachmentsTryFromEnvelope(envelope), "attachments")
    IN  IF ~ty.ok THEN ty
        ELSE IF ~id.ok THEN id
        ELSE IF ~wallets.ok THEN wallets
        ELSE IF ~txs.ok THEN txs
        ELSE IF ~export_height.ok THEN export_height
        ELSE IF ~attachments.ok THEN attachments
        ELSE Ok([id |-> id.val,
                 wallets |-> wallets.val,
                 transactions |-> CollectByTxid(txs.val),
                 export_height |-> export_height.val,
                 export_height_block_hash |-> uninit,
                 attachments |-> attachments.val])

(***************************************************************************)
(* SpecZewif: build a container, encode it, decode the envelope.           *)
(***************************************************************************)
IdleZewifVars ==
    /\ zewif = ZewifNew("arid1", 0, "h0")
    /\ zpc = "build"
    /\ carriedOther = FALSE
    /\ callOrder = <<>>
    /\ txlog = EmptyTransactions
    /\ replaced = FALSE
    /\ lookup = None
    /\ zenv = None
    /\ zdec = None

InitZewifVars ==
    /\ \E arid \in Arids, h \in BlockHeights, b \in BlockHashes :
           zewif = ZewifNew(arid, h, b)
    /\ zpc = "build"
    /\ carriedOther = FALSE
    /\ callOrder = <<>>
    /\ txlog = EmptyTransactions
    /\ replaced = FALSE
    /\ lookup = None
    /\ zenv = None
    /\ zdec = None

AddWallet ==
    /\ zpc = "build"
    /\ wallets_len(zewif) < MaxWallets
    /\ \E network \in Networks, carried \in 0..MaxIndex :
           /\ zewif' = add_wallet(zewif, set_index(ZewifWalletNew(network), carried))
           /\ carriedOther' = (carriedOther \/ carried # wallets_len(zewif))
           /\ callOrder' = Append(callOrder, network)
    /\ UNCHANGED <<zpc, txlog, replaced, lookup, zenv, zdec>>
    /\ UNCHANGED notZewif

AddTransaction ==
    /\ zpc = "build"
    /\ \E id \in TxIds, tx \in Transactions :
           /\ zewif' = add_transaction(zewif, id, tx)
           /\ txlog' = IF replaced THEN txlog ELSE [txlog EXCEPT ![id] = Some(tx)]
    /\ lookup' = None
    /\ UNCHANGED <<zpc, carriedOther, callOrder, replaced, zenv, zdec>>
    /\ UNCHANGED notZewif

GetTransaction ==
    /\ zpc = "build"
    /\ \E id \in TxIds :
           lookup' = Some([txid |-> id, found |-> get_transaction(zewif, id)])
    /\ UNCHANGED <<zewif, zpc, carriedOther, callOrder, txlog, replaced, zenv, zdec>>
    /\ UNCHANGED notZewif

SetTransactions ==
    /\ zpc = "build"
    /\ \E m \in TransactionMaps : zewif' = set_transactions(zewif, m)
    /\ replaced' = TRUE
    /\ txlog' = EmptyTransactions
    /\ lookup' = None
    /\ UNCHANGED <<zpc, carriedOther, callOrder, zenv, zdec>>
    /\ UNCHANGED notZewif

AddAttachment ==
    /\ zpc = "build"
    /\ \E a \in AttachmentPool : zewif' = add_attachment(zewif, a)
    /\ UNCHANGED <<zpc, carriedOther, callOrder, txlog, replaced, lookup, zenv, zdec>>
    /\ UNCHANGED notZewif

\* Envelope::from(zewif) consumes the container; the hash map yields its
\* entries in some order
EncodeZewif ==
    /\ zpc = "build"
    /\ \E txOrder \in Enumerations(Keys(zewif.transactions)) :
           zenv' = Some(ZewifToEnvelope(zewif, txOrder))
    /\ zpc' = "encoded"
    /\ UNCHANGED <<zewif, carriedOther, callOrder, txlog, replaced, lookup, zdec>>
    /\ UNCHANGED notZewif

DecodeZewif ==
    /\ zpc = "encoded"
    /\ \E walletOrder \in Enumerations(objects_for_predicate(Unwrap(zenv), "wallet")),
          txOrder \in Enumerations(objects_for_predicate(Unwrap(zenv), "transaction")),
          uninit \in BlockHashes :
           zdec' = Some(ZewifTryFrom(Unwrap(zenv), walletOrder, txOrder, uninit))
    /\ zpc' = "decoded"
    /\ UNCHANGED <<zewif, carriedOther, callOrder, txlog, replaced, lookup, zenv>>
    /\ UNCHANGED notZewif

NextZewif ==
    \/ AddWallet
    \/ AddTransaction
    \/ AddAttachment
    \/ EncodeZewif
    \/ DecodeZewif


(***************************************************************************)
(* Claims about the container.                                             *)
(***************************************************************************)
\* every transaction of the map is stored under its own txid
OwnTxids(z) ==
    \A k \in TxIds : IsSome(z.transactions[k]) => txid(Unwrap(z.transactions[k])) = k

\* C1: after any sequence of add_wallet calls on a new container, the wallet
\* at vector position i has index i (counting from 0), whatever index it
\* carried when it was passed to add_wallet.
C1_WalletIndexIsPosition ==
    /\ wallets_len(zewif) = Len(callOrder)
    /\ \A i \in 1..wallets_len(zewif) :
           /\ zewif.wallets[i].index = i - 1
           /\ zewif.wallets[i].network = callOrder[i]

C1_Witness ==
    /\ wallets_len(zewif) >= 2
    /\ carriedOther
    /\ zewif.wallets[2].index = 1

\* C2: for a container whose transactions are each stored under their own
\* txid, decoding its encoding succeeds and yields a value equal to it in
\* every field, export_height_block_hash included.
C2_ZewifRoundTrip ==
    (zpc = "decoded" /\ OwnTxids(zewif)) => Unwrap(zdec) = Ok(zewif)

\* what the code does preserve: every field but export_height_block_hash
C2_RoundTripButBlockHash ==
    (zpc = "decoded" /\ OwnTxids(zewif)) =>
        /\ Unwrap(zdec).ok
        /\ [Unwrap(zdec).val EXCEPT !.export_height_block_hash = "h0"]
               = [zewif EXCEPT !.export_height_block_hash = "h0"]

\* C3: decoding a document with k 'wallet' assertions yields the wallets
\* sorted by their embedded index, whatever order the document enumerates
\* the assertions in, and that order is the add_wallet call order.
C3_WalletsDecodeInCallOrder ==
    zpc = "decoded" =>
        /\ Unwrap(zdec).ok
        /\ LET ws == Unwrap(zdec).val.wallets IN
           /\ Len(ws) = Len(callOrder)
           /\ \A i \in 1..Len(ws) : ws[i].index = i - 1 /\ ws[i].network = callOrder[i]

C3_Witness ==
    /\ zpc = "decoded"
    /\ Unwrap(zdec).ok
    /\ Len(Unwrap(zdec).val.wallets) >= 2
    /\ Cardinality(Enumerations(objects_for_predicate(Unwrap(zenv), "wallet"))) >= 2
    /\ carriedOther

\* the document of a container's value: id and type tag, one 'wallet'
\* assertion per wallet, one 'transaction' assertion per stored transaction,
\* the export height and the attachments
DocumentOf(z) ==
    [subject |-> CborArid(z.id),
     types |-> {"Zewif"},
     assertions |->
         {[pred |-> "wallet", obj |-> WalletToEnvelope(z.wallets[i])] :
              i \in 1..Len(z.wallets)}
         \cup {[pred |-> "transaction", obj |-> TransactionToEnvelope(tx)] :
                   tx \in TransactionEntries(z)}
         \cup {[pred |-> "export_height", obj |-> Leaf(CborUint(z.export_height))]}
         \cup {[pred |-> "attachment", obj |-> Leaf(CborText(a))] : a \in z.attachments}]

\* C24: encoding is deterministic in the container's value: whatever order
\* the transactions were inserted in and whatever order the hash map yields
\* them in, the document is the same, with the same subject, type tag and
\* 'wallet', 'transaction' and 'export_height' assertions.
C24_EncodingDeterministic ==
    zpc \in {"encoded", "decoded"} =>
        /\ \A txOrder \in Enumerations(Keys(zewif.transactions)) :
               ZewifToEnvelope(zewif, txOrder) = Unwrap(zenv)
        /\ Unwrap(zenv) = DocumentOf(zewif)

\* two transactions, stored in the order t2 then t1 or t1 then t2, and two
\* wallets
C24_Witness ==
    /\ zpc = "encoded"
    /\ Keys(zewif.transactions) = TxIds
    /\ Cardinality(Enumerations(Keys(zewif.transactions))) >= 2
    /\ zewif.transactions["t1"] # zewif.transactions["t2"]
    /\ wallets_len(zewif) >= 2
    /\ Cardinality(objects_for_predicate(Unwrap(zenv), "transaction")) = 2

(***************************************************************************)
(* SpecTxMap: the operations on the container's transaction map alone.     *)
(***************************************************************************)
NextTxMap ==
    \/ AddTransaction
    \/ GetTransaction
    \/ SetTransactions


\* C4: after any sequence of add_transaction calls the map holds one entry
\* per identifier that was added, the one most recently added under it, and
\* get_transaction returns that entry, or none for an identifier never added.
C4_MapHoldsLastAdded ==
    ~replaced =>
        /\ \A k \in TxIds : zewif.transactions[k] = txlog[k]
        /\ Cardinality(TransactionEntries(zewif))
               <= Cardinality({k \in TxIds : IsSome(txlog[k])})
        /\ IsSome(lookup) => Unwrap(lookup).found = txlog[Unwrap(lookup).txid]

C4_Witness ==
    /\ ~replaced
    /\ IsSome(lookup)
    /\ IsSome(Unwrap(lookup).found)
    /\ \E k \in TxIds : txlog[k] = None

\* C23: after any sequence of add_transaction and set_transactions calls,
\* every key of the container's transaction map is the txid() of the
\* transaction stored under it (so that decoding the encoded container,
\* which keys each transaction by its own txid(), rebuilds the same keys).
C23_KeysAreOwnTxids ==
    \A k \in Keys(zewif.transactions) : txid(Unwrap(zewif.transactions[k])) = k

\* the consequence the claim draws, under SpecZewif: the decoded map has the
\* keys, and the number of entries, of the encoded one
C23_DecodeRebuildsKeys ==
    zpc = "decoded" =>
        /\ Unwrap(zdec).ok
        /\ Keys(Unwrap(zdec).val.transactions) = Keys(zewif.transactions)

\* what the code does ensure: the decoded map is keyed by its transactions'
\* own txids, and has the encoded map's keys when that one was keyed so
C23_DecodedKeysAreOwnTxids ==
    zpc = "decoded" =>
        /\ Unwrap(zdec).ok
        /\ OwnTxids(Unwrap(zdec).val)
        /\ OwnTxids(zewif) => Unwrap(zdec).val.transactions = zewif.transactions

(***************************************************************************)
(* Leaf codecs used by the entities.                                       *)
(***************************************************************************)
\* From<Blob<N>> for CBOR: a byte string of the N bytes
BlobToCbor(b) == CborBytes(b)

\* From<Blob<N>> for Envelope: a leaf holding the byte string
BlobToEnvelope(value) == EnvelopeNew(BlobToCbor(value))

BlobTryFromCbor_truncating(n, cbor) ==
    IF cbor.major # "bytes" THEN Err(<<"WrongType">>)
    ELSE IF Len(CborVal(cbor)) < n THEN Err(<<"Blob: could not convert slice to array">>)
    ELSE Ok(SubSeq(CborVal(cbor), 1, n))
\* TryFrom<CBOR> for Blob<N>: a byte string, of exactly N bytes
BlobTryFromCbor(n, cbor) ==
    IF cbor.major # "bytes" THEN Err(<<"WrongType">>)
    ELSE IF ~from_slice(n, CborVal(cbor)).ok THEN Err(<<"Blob: could not convert slice to array">>)
    ELSE Ok(from_slice(n, CborVal(cbor)).val)

\* TryFrom<Envelope> for Blob<N>: extract_subject().context("Blob")
BlobTryFromEnvelope(n, envelope) == Context(BlobTryFromCbor(n, envelope.subject), "Blob")

\* u256: a 32-byte value, a byte string on the wire
U256Len == 32
U256ToCbor(u) == CborBytes(u)
U256TryFromCbor(cbor) ==
    IF cbor.major # "bytes" \/ Len(CborVal(cbor)) # U256Len THEN Err(<<"WrongType">>)
    ELSE Ok(CborVal(cbor))

\* Amount: a count of zatoshis, an integer on the wire
AmountToCbor(a) == CborUint(a)
AmountTryFromCbor(cbor) ==
    IF cbor.major # "uint" THEN Err(<<"WrongType">>) ELSE Ok(CborVal(cbor))

\* ProtocolAddress, by its canonical string
ProtocolAddressToEnvelope(a) == Leaf(CborText(a))
ProtocolAddressTryFromEnvelope(e) == extract_subject(e, "text")

\* IncrementalMerkleTree: the frontier of an append-only tree, with an optional
\* left and right hash at the insertion level and one optional hash per level
\* above.  A tree of depth D has at most D - 1 parent entries; in a document
\* the snapshot is one leaf, and decoding it for depth D rejects a snapshot
\* that holds more.
INCREMENTAL_MERKLE_TREE_DEPTH == 29
IncrementalMerkleTree(left, right, parents) ==
    [left |-> left, right |-> right, parents |-> parents]
TreeFits(tree, depth) == Len(tree.parents) <= depth - 1
TreeToCbor(t) == [major |-> "tree", tree |-> t]
TreeTryFromEnvelope(e) ==
    LET tree == extract_subject(e, "tree") IN
    IF ~tree.ok THEN tree
    ELSE IF ~TreeFits(tree.val, INCREMENTAL_MERKLE_TREE_DEPTH)
    THEN Err(<<"StructuralInvariant">>)
    ELSE tree

TextTryFromEnvelope(e) == extract_subject(e, "text")
DiversifierLen == 11
DiversifierTryFromEnvelope(e) == BlobTryFromCbor(DiversifierLen, e.subject)
U256TryFromEnvelope(e) == U256TryFromCbor(e.subject)
AmountTryFromEnvelope(e) == AmountTryFromCbor(e.subject)

\* the object's own decoder, by the type T the caller asks for
DecodeAs(type, o) ==
    CASE type = "String" -> TextTryFromEnvelope(o)
      [] type = "ProtocolAddress" -> ProtocolAddressTryFromEnvelope(o)
      [] type = "Blob<11>" -> DiversifierTryFromEnvelope(o)
      [] type = "u256" -> U256TryFromEnvelope(o)
      [] type = "Amount" -> AmountTryFromEnvelope(o)
      [] type = "IncrementalMerkleTree" -> TreeTryFromEnvelope(o)

\* Envelope::extract_object_for_predicate::<T> / try_object_for_predicate::<T>
try_object_for_predicate(e, p, type) ==
    LET o == object_for_predicate(e, p) IN
    IF ~o.ok THEN o ELSE DecodeAs(type, o.val)

\* Envelope::try_optional_object_for_predicate::<T>
try_optional_object_for_predicate(e, p, type) ==
    LET o == optional_object_for_predicate(e, p) IN
    IF ~o.ok THEN o
    ELSE IF o.val = None THEN Ok(None)
    ELSE LET v == DecodeAs(type, Unwrap(o.val)) IN
         IF ~v.ok THEN v ELSE Ok(Some(v.val))

(***************************************************************************)
(* Address (address.rs)                                                    *)
(***************************************************************************)
ProtocolAddresses == {"t1example", "zs1example"}
Names == {"", "Donation Address"}
Purposes == {"", "Receiving public donations"}

AddressNew(address) ==
    [index |-> 0, address |-> address, name |-> "", purpose |-> None, attachments |-> {}]
set_name(a, name) == [a EXCEPT !.name = name]
set_purpose(a, purpose) == [a EXCEPT !.purpose = Some(purpose)]
set_address(a, address) == [a EXCEPT !.address = address]

PurposeObject(purpose) == IF IsSome(purpose) THEN Some(Leaf(CborText(Unwrap(purpose)))) ELSE None

AddressToEnvelope_placeholder(value) ==
    LET envelope ==
            add_assertion(
                add_assertion(
                    add_assertion(add_type(EnvelopeNew(CborUint(value.index)), "Address"),
                                  "address", ProtocolAddressToEnvelope(value.address)),
                    "name", Leaf(CborText(value.name))),
                "purpose",
                Leaf(CborText(IF IsSome(value.purpose) THEN Unwrap(value.purpose) ELSE "")))
    IN  AttachmentsAddToEnvelope(value.attachments, envelope)
AddressToEnvelope(value) ==
    LET envelope ==
            add_optional_assertion(
                add_assertion(
                    add_assertion(add_type(EnvelopeNew(CborUint(value.index)), "Address"),
                                  "address", ProtocolAddressToEnvelope(value.address)),
                    "name", Leaf(CborText(value.name))),
                "purpose", PurposeObject(value.purpose))
    IN  AttachmentsAddToEnvelope(value.attachments, envelope)

AddressTryFrom_type_unchecked(envelope) ==
    LET index == Context(extract_subject(envelope, "uint"), "index")
        address == Context(try_object_for_predicate(envelope, "address", "ProtocolAddress"),
                           "address")
        name == Context(try_object_for_predicate(envelope, "name", "String"), "name")
        purpose == Context(try_optional_object_for_predicate(envelope, "purpose", "String"),
                           "purpose")
        attachments == Context(AttachmentsTryFromEnvelope(envelope), "attachments")
    IN  IF ~index.ok THEN index
        ELSE IF ~address.ok THEN address
        ELSE IF ~name.ok THEN name
        ELSE IF ~purpose.ok THEN purpose
        ELSE IF ~attachments.ok THEN attachments
        ELSE Ok([index |-> index.val,
                 address |-> address.val,
                 name |-> name.val,
                 purpose |-> purpose.val,
                 attachments |-> attachments.val])
AddressTryFrom_name_defaulted(envelope) ==
    LET ty == Context(check_type_envelope(envelope, "Address"), "Address")
        index == Context(extract_subject(envelope, "uint"), "index")
        address == Context(try_object_for_predicate(envelope, "address", "ProtocolAddress"),
                           "address")
        name == Context(try_optional_object_for_predicate(envelope, "name", "String"), "name")
        purpose == Context(try_optional_object_for_predicate(envelope, "purpose", "String"),
                           "purpose")
        attachments == Context(AttachmentsTryFromEnvelope(envelope), "attachments")
    IN  IF ~ty.ok THEN ty
        ELSE IF ~index.ok THEN index
        ELSE IF ~address.ok THEN address
        ELSE IF ~name.ok THEN name
        ELSE IF ~purpose.ok THEN purpose
        ELSE IF ~attachments.ok THEN attachments
        ELSE Ok([index |-> index.val,
                 address |-> address.val,
                 name |-> IF IsSome(name.val) THEN Unwrap(name.val) ELSE "",
                 purpose |-> purpose.val,
                 attachments |-> attachments.val])
AddressTryFrom(envelope) ==
    LET ty == Context(check_type_envelope(envelope, "Address"), "Address")
        index == Context(extract_subject(envelope, "uint"), "index")
        address == Context(try_object_for_predicate(envelope, "address", "ProtocolAddress"),
                           "address")
        name == Context(try_object_for_predicate(envelope, "name", "String"), "name")
        purpose == Context(try_optional_object_for_predicate(envelope, "purpose", "String"),
                           "purpose")
        attachments == Context(AttachmentsTryFromEnvelope(envelope), "attachments")
    IN  IF ~ty.ok THEN ty
        ELSE IF ~index.ok THEN index
        ELSE IF ~address.ok THEN address
        ELSE IF ~name.ok THEN name
        ELSE IF ~purpose.ok THEN purpose
        ELSE IF ~attachments.ok THEN attachments
        ELSE Ok([index |-> index.val,
                 address |-> address.val,
                 name |-> name.val,
                 purpose |-> purpose.val,
                 attachments |-> attachments.val])

(***************************************************************************)
(* SaplingSentOutput (sapling/sapling_sent_output.rs)                      *)
(***************************************************************************)
Diversifiers == {BlobDefault(DiversifierLen), [i \in 1..DiversifierLen |-> 171]}
U256s == {BlobDefault(U256Len), [i \in 1..U256Len |-> 1]}
Amounts == {0, 1, 5000000}

SaplingSentOutputNew ==
    [index |-> 0,
     diversifier |-> BlobDefault(DiversifierLen),
     receipient_public_key |-> BlobDefault(U256Len),
     value |-> 0,
     rcm |-> BlobDefault(U256Len)]
set_diversifier(o, diversifier) == [o EXCEPT !.diversifier = diversifier]
set_receipient_public_key(o, key) == [o EXCEPT !.receipient_public_key = key]
set_value(o, value) == [o EXCEPT !.value = value]
set_rcm(o, rcm) == [o EXCEPT !.rcm = rcm]

SaplingSentOutputToEnvelope(value) ==
    add_assertion(
        add_assertion(
            add_assertion(
                add_assertion(
                    add_type(EnvelopeNew(CborUint(value.index)), "SaplingSentOutput"),
                    "diversifier", Leaf(BlobToCbor(value.diversifier))),
                "receipient_public_key", Leaf(U256ToCbor(value.receipient_public_key))),
            "value", Leaf(AmountToCbor(value.value))),
        "rcm", Leaf(U256ToCbor(value.rcm)))

SaplingSentOutputTryFrom_rcm_from_key(envelope) ==
    LET ty == Context(check_type_envelope(envelope, "SaplingSentOutput"), "SaplingSentOutput")
        index == Context(extract_subject(envelope, "uint"), "index")
        diversifier ==
            Context(try_object_for_predicate(envelope, "diversifier", "Blob<11>"),
                    "diversifier")
        receipient_public_key ==
            Context(try_object_for_predicate(envelope, "receipient_public_key", "u256"),
                    "receipient_public_key")
        value == Context(try_object_for_predicate(envelope, "value", "Amount"), "value")
        rcm == Context(try_object_for_predicate(envelope, "receipient_public_key", "u256"),
                       "rcm")
    IN  IF ~ty.ok THEN ty
        ELSE IF ~index.ok THEN index
        ELSE IF ~diversifier.ok THEN diversifier
        ELSE IF ~receipient_public_key.ok THEN receipient_public_key
        ELSE IF ~value.ok THEN value
        ELSE IF ~rcm.ok THEN rcm
        ELSE Ok([index |-> index.val,
                 diversifier |-> diversifier.val,
                 receipient_public_key |-> receipient_public_key.val,
                 value |-> value.val,
                 rcm |-> rcm.val])
SaplingSentOutputTryFrom(envelope) ==
    LET ty == Context(check_type_envelope(envelope, "SaplingSentOutput"), "SaplingSentOutput")
        index == Context(extract_subject(envelope, "uint"), "index")
        diversifier ==
            Context(try_object_for_predicate(envelope, "diversifier", "Blob<11>"),
                    "diversifier")
        receipient_public_key ==
            Context(try_object_for_predicate(envelope, "receipient_public_key", "u256"),
                    "receipient_public_key")
        value == Context(try_object_for_predicate(envelope, "value", "Amount"), "value")
        rcm == Context(try_object_for_predicate(envelope, "rcm", "u256"), "rcm")
    IN  IF ~ty.ok THEN ty
        ELSE IF ~index.ok THEN index
        ELSE IF ~diversifier.ok THEN diversifier
        ELSE IF ~receipient_public_key.ok THEN receipient_public_key
        ELSE IF ~value.ok THEN value
        ELSE IF ~rcm.ok THEN rcm
        ELSE Ok([index |-> index.val,
                 diversifier |-> diversifier.val,
                 receipient_public_key |-> receipient_public_key.val,
                 value |-> value.val,
                 rcm |-> rcm.val])

(***************************************************************************)
(* SproutWitness (sprout_witness.rs)                                       *)
(***************************************************************************)
\* snapshots of depth-29 trees: empty, one leaf, and every level in use
FullParents ==
    [i \in 1..(INCREMENTAL_MERKLE_TREE_DEPTH - 1) |-> IF i % 2 = 0 THEN None ELSE Some("n2")]
Trees ==
    {IncrementalMerkleTree(None, None, <<>>),
     IncrementalMerkleTree(Some("n1"), None, <<>>),
     IncrementalMerkleTree(Some("n1"), Some("n3"), FullParents)}
FilledLists == UNION {[1..l -> U256s] : l \in 0..MaxFilled}

\* IncrementalWitness::with_fields
with_fields(tree, filled, cursor) == [tree |-> tree, filled |-> filled, cursor |-> cursor]

FilledToCbor(filled) == CborArray([i \in 1..Len(filled) |-> U256ToCbor(filled[i])])
FilledTryFromEnvelope(e) ==
    IF e.subject.major # "array" THEN Err(<<"WrongType">>)
    ELSE IF \E i \in 1..Len(CborVal(e.subject)) : ~U256TryFromCbor(CborVal(e.subject)[i]).ok
    THEN Err(<<"WrongType">>)
    ELSE Ok([i \in 1..Len(CborVal(e.subject)) |-> U256TryFromCbor(CborVal(e.subject)[i]).val])

\* extract_object_for_predicate::<Vec<u256>>
FilledForPredicate(e, p) ==
    LET o == object_for_predicate(e, p) IN
    IF ~o.ok THEN o ELSE FilledTryFromEnvelope(o.val)

CursorObject(cursor) == IF IsSome(cursor) THEN Some(Leaf(TreeToCbor(Unwrap(cursor)))) ELSE None

SproutWitnessToEnvelope(value) ==
    add_optional_assertion(
        add_assertion(add_type(EnvelopeNew(TreeToCbor(value.tree)), "SproutWitness"),
                      "filled", Leaf(FilledToCbor(value.filled))),
        "cursor", CursorObject(value.cursor))

SproutWitnessTryFrom_without_cursor(envelope) ==
    LET ty == Context(check_type_envelope(envelope, "SproutWitness"), "SproutWitness")
        tree == Context(TreeTryFromEnvelope(envelope), "tree")
        filled == Context(FilledForPredicate(envelope, "filled"), "filled")
    IN  IF ~ty.ok THEN ty
        ELSE IF ~tree.ok THEN tree
        ELSE IF ~filled.ok THEN filled
        ELSE Ok(with_fields(tree.val, filled.val, None))
SproutWitnessTryFrom_lenient_cursor(envelope) ==
    LET ty == Context(check_type_envelope(envelope, "SproutWitness"), "SproutWitness")
        tree == Context(TreeTryFromEnvelope(envelope), "tree")
        filled == Context(FilledForPredicate(envelope, "filled"), "filled")
        cursor ==
            Context(try_optional_object_for_predicate(envelope, "cursor",
                                                      "IncrementalMerkleTree"),
                    "cursor")
    IN  IF ~ty.ok THEN ty
        ELSE IF ~tree.ok THEN tree
        ELSE IF ~filled.ok THEN filled
        ELSE Ok(with_fields(tree.val, filled.val, IF cursor.ok THEN cursor.val ELSE None))
SproutWitnessTryFrom(envelope) ==
    LET ty == Context(check_type_envelope(envelope, "SproutWitness"), "SproutWitness")
        tree == Context(TreeTryFromEnvelope(envelope), "tree")
        filled == Context(FilledForPredicate(envelope, "filled"), "filled")
        cursor ==
            Context(try_optional_object_for_predicate(envelope, "cursor",
                                                      "IncrementalMerkleTree"),
                    "cursor")
    IN  IF ~ty.ok THEN ty
        ELSE IF ~tree.ok THEN tree
        ELSE IF ~filled.ok THEN filled
        ELSE IF ~cursor.ok THEN cursor
        ELSE Ok(with_fields(tree.val, filled.val, cursor.val))

(***************************************************************************)
(* SpecCodec: construct an entity, set its fields, encode it, decode the   *)
(* envelope.                                                               *)
(***************************************************************************)
Kinds == {"Address", "SaplingSentOutput", "SproutWitness"}

IdleCodecVars ==
    /\ ckind = "Address"
    /\ cpc = "none"
    /\ ent = None
    /\ cenv = None
    /\ cdec = None
    /\ positioned = FALSE

InitCodecVars ==
    /\ ckind \in Kinds
    /\ cpc = "none"
    /\ ent = None
    /\ cenv = None
    /\ cdec = None
    /\ positioned = FALSE

Construct ==
    /\ cpc = "none"
    /\ \/ /\ ckind = "Address"
          /\ \E address \in ProtocolAddresses : ent' = Some(AddressNew(address))
       \/ /\ ckind = "SaplingSentOutput"
          /\ ent' = Some(SaplingSentOutputNew)
       \/ /\ ckind = "SproutWitness"
          /\ \E tree \in Trees, filled \in FilledLists,
                cursor \in {None} \cup {Some(t) : t \in Trees} :
                 ent' = Some(with_fields(tree, filled, cursor))
    /\ cpc' = "build"
    /\ UNCHANGED <<ckind, cenv, cdec, positioned>>
    /\ UNCHANGED notCodec

\* Indexed::set_index, public on Address and SaplingSentOutput
SetIndex ==
    /\ cpc = "build"
    /\ ckind \in {"Address", "SaplingSentOutput"}
    /\ \E i \in 0..MaxIndex : ent' = Some(set_index(Unwrap(ent), i))
    /\ positioned' = TRUE
    /\ UNCHANGED <<ckind, cpc, cenv, cdec>>
    /\ UNCHANGED notCodec

SetAddressField ==
    /\ cpc = "build"
    /\ ckind = "Address"
    /\ \/ \E name \in Names : ent' = Some(set_name(Unwrap(ent), name))
       \/ \E purpose \in Purposes : ent' = Some(set_purpose(Unwrap(ent), purpose))
       \/ \E address \in ProtocolAddresses : ent' = Some(set_address(Unwrap(ent), address))
       \/ \E a \in AttachmentPool : ent' = Some(add_attachment(Unwrap(ent), a))
    /\ UNCHANGED <<ckind, cpc, cenv, cdec, positioned>>
    /\ UNCHANGED notCodec

SetSentOutputField ==
    /\ cpc = "build"
    /\ ckind = "SaplingSentOutput"
    /\ \/ \E d \in Diversifiers : ent' = Some(set_diversifier(Unwrap(ent), d))
       \/ \E k \in U256s : ent' = Some(set_receipient_public_key(Unwrap(ent), k))
       \/ \E v \in Amounts : ent' = Some(set_value(Unwrap(ent), v))
       \/ \E r \in U256s : ent' = Some(set_rcm(Unwrap(ent), r))
    /\ UNCHANGED <<ckind, cpc, cenv, cdec, positioned>>
    /\ UNCHANGED notCodec

EntityToEnvelope(kind, value) ==
    CASE kind = "Address" -> AddressToEnvelope(value)
      [] kind = "SaplingSentOutput" -> SaplingSentOutputToEnvelope(value)
      [] kind = "SproutWitness" -> SproutWitnessToEnvelope(value)

EntityTryFrom(kind, envelope) ==
    CASE kind = "Address" -> AddressTryFrom(envelope)
      [] kind = "SaplingSentOutput" -> SaplingSentOutputTryFrom(envelope)
      [] kind = "SproutWitness" -> SproutWitnessTryFrom(envelope)

EncodeEntity ==
    /\ cpc = "build"
    /\ cenv' = Some(EntityToEnvelope(ckind, Unwrap(ent)))
    /\ cpc' = "encoded"
    /\ UNCHANGED <<ckind, ent, cdec, positioned>>
    /\ UNCHANGED notCodec

DecodeEntity ==
    /\ cpc = "encoded"
    /\ cdec' = Some(EntityTryFrom(ckind, Unwrap(cenv)))
    /\ cpc' = "decoded"
    /\ UNCHANGED <<ckind, ent, cenv, positioned>>
    /\ UNCHANGED notCodec

NextCodec ==
    \/ Construct
    \/ SetIndex
    \/ SetAddressField
    \/ SetSentOutputField
    \/ EncodeEntity
    \/ DecodeEntity

(***************************************************************************)
(* Claims about the entity codecs.                                         *)
(***************************************************************************)
AssertionsFor(e, p) == {a \in e.assertions : a.pred = p}

\* C9: for Address.purpose and SproutWitness.cursor, an absent field encodes
\* to zero assertions of its predicate and decodes to none; a present field
\* encodes to exactly one assertion and decodes to some(the same value).
C9_OptionalFieldOmitted ==
    /\ (cpc \in {"encoded", "decoded"} /\ ckind = "Address") =>
           Cardinality(AssertionsFor(Unwrap(cenv), "purpose"))
               = IF IsSome(Unwrap(ent).purpose) THEN 1 ELSE 0
    /\ (cpc \in {"encoded", "decoded"} /\ ckind = "SproutWitness") =>
           Cardinality(AssertionsFor(Unwrap(cenv), "cursor"))
               = IF IsSome(Unwrap(ent).cursor) THEN 1 ELSE 0
    /\ (cpc = "decoded" /\ ckind = "Address") =>
           Unwrap(cdec).ok /\ Unwrap(cdec).val.purpose = Unwrap(ent).purpose
    /\ (cpc = "decoded" /\ ckind = "SproutWitness") =>
           Unwrap(cdec).ok /\ Unwrap(cdec).val.cursor = Unwrap(ent).cursor

C9_Witness ==
    /\ cpc = "decoded"
    /\ ckind = "Address"
    /\ Unwrap(ent).purpose = None
    /\ Unwrap(ent).name # ""
    /\ AssertionsFor(Unwrap(cenv), "purpose") = {}
    /\ Unwrap(cdec).ok
    /\ Unwrap(cdec).val.purpose = None

\* the present case of C9, and the witness's cursor
C9_WitnessPresent ==
    /\ cpc = "decoded"
    /\ ckind = "SproutWitness"
    /\ IsSome(Unwrap(ent).cursor)
    /\ Unwrap(cdec).ok
    /\ Unwrap(cdec).val.cursor = Unwrap(ent).cursor

\* C10: decode(encode(a)) = a for every Address a and decode(encode(s)) = s
\* for every SaplingSentOutput s, whatever their index, every field kept.
C10_EntityRoundTrip ==
    (cpc = "decoded" /\ ckind \in {"Address", "SaplingSentOutput"}) =>
        Unwrap(cdec) = Ok(Unwrap(ent))

C10_Witness ==
    /\ cpc = "decoded"
    /\ ckind = "SaplingSentOutput"
    /\ Unwrap(ent).index = MaxIndex
    /\ Unwrap(ent).diversifier = BlobDefault(DiversifierLen)
    /\ Unwrap(ent).rcm = BlobDefault(U256Len)
    /\ Unwrap(ent).receipient_public_key # BlobDefault(U256Len)
    /\ Unwrap(ent).value = 5000000
    /\ Unwrap(cdec) = Ok(Unwrap(ent))

\* C11: decode(encode(w)) = w for every SproutWitness w: the tree snapshot
\* comes back from the subject, the 'filled' hashes in the same order and
\* number, the cursor present with the same tree or absent.
C11_WitnessRoundTrip ==
    (cpc = "decoded" /\ ckind = "SproutWitness") =>
        /\ Unwrap(cdec).ok
        /\ Unwrap(cdec).val.tree = Unwrap(ent).tree
        /\ Unwrap(cdec).val.filled = Unwrap(ent).filled
        /\ Unwrap(cdec).val.cursor = Unwrap(ent).cursor

C11_Witness ==
    /\ cpc = "decoded"
    /\ ckind = "SproutWitness"
    /\ Len(Unwrap(ent).filled) >= 2
    /\ Unwrap(ent).filled[1] # Unwrap(ent).filled[2]
    /\ IsSome(Unwrap(ent).cursor)
    /\ Unwrap(Unwrap(ent).cursor) # Unwrap(ent).tree
    /\ Len(Unwrap(ent).tree.parents) = INCREMENTAL_MERKLE_TREE_DEPTH - 1
    /\ Unwrap(cdec) = Ok(Unwrap(ent))

\* C16: once an Address or SaplingSentOutput has been given its position,
\* no public operation on it changes its index again.
C16_IndexAssignedOnce ==
    [][(positioned /\ IsSome(ent) /\ IsSome(ent')) =>
           Unwrap(ent').index = Unwrap(ent).index]_vars

\* the operations other than set_index leave the index alone
C16_OnlySetIndexChangesIndex ==
    [][(/\ ckind \in {"Address", "SaplingSentOutput"}
        /\ IsSome(ent) /\ IsSome(ent')
        /\ Unwrap(ent').index # Unwrap(ent).index) => positioned']_vars

(***************************************************************************)
(* SpecDecode: a document that was encoded from an entity and changed on   *)
(* its way (type tags, subject, assertions) is decoded as that entity.     *)
(***************************************************************************)
DocumentKinds == {"Address", "SaplingSentOutput", "SproutWitness", "Zewif"}

\* a snapshot with one parent entry more than depth 29 allows
OversizeTree ==
    IncrementalMerkleTree(Some("n1"), None,
                          [i \in 1..INCREMENTAL_MERKLE_TREE_DEPTH |-> Some("n2")])

\* one entity of each type, every field set
SampleEntity(kind) ==
    CASE kind = "Address" ->
             set_purpose(set_name(AddressNew("t1example"), "Donation Address"),
                         "Receiving public donations")
      [] kind = "SaplingSentOutput" -> set_value(SaplingSentOutputNew, 1)
      [] kind = "SproutWitness" ->
             with_fields(IncrementalMerkleTree(Some("n1"), None, <<>>),
                         <<BlobDefault(U256Len)>>,
                         Some(IncrementalMerkleTree(None, None, <<>>)))
      [] kind = "Zewif" ->
             add_transaction(add_wallet(ZewifNew("arid1", 2000000, "h0"),
                                        ZewifWalletNew("Main")),
                             "t1", [txid |-> "t1", raw |-> "a"])

SampleDocument(kind) ==
    IF kind = "Zewif" THEN ZewifToEnvelope(SampleEntity(kind), <<"t1">>)
    ELSE EntityToEnvelope(kind, SampleEntity(kind))

\* the tag each decoder asks for, and tags that are not it
DeclaredTag(kind) == kind
ForeignTags(kind) ==
    CASE kind = "Address" -> {"address", "Zewif"}
      [] kind = "SaplingSentOutput" -> {"saplingsentoutput", "Address"}
      [] kind = "SproutWitness" -> {"Sproutwitness", "IncrementalMerkleTree"}
      [] kind = "Zewif" -> {"ZEWIF", "ZewifWallet"}

\* the predicates each decoder reads
RequiredPredicates(kind) ==
    CASE kind = "Address" -> {"address", "name"}
      [] kind = "SaplingSentOutput" ->
             {"diversifier", "receipient_public_key", "value", "rcm"}
      [] kind = "SproutWitness" -> {"filled"}
      [] kind = "Zewif" -> {"export_height"}
OptionalPredicates(kind) ==
    CASE kind = "Address" -> {"purpose"}
      [] kind = "SproutWitness" -> {"cursor"}
      [] OTHER -> {}
MultiPredicates(kind) ==
    CASE kind = "Address" -> {"attachment"}
      [] kind = "Zewif" -> {"wallet", "transaction", "attachment"}
      [] OTHER -> {}
Predicates(kind) ==
    RequiredPredicates(kind) \cup OptionalPredicates(kind) \cup MultiPredicates(kind)

\* objects and subjects a changed document may carry
ForeignObjects ==
    {Leaf(CborText("other")),
     Leaf(CborUint(7)),
     Leaf(TreeToCbor(OversizeTree)),
     EnvelopeNew(CborUint(1)),
     add_type(EnvelopeNew(CborText("t2")), "Transaction")}
ForeignSubjects == {CborText("other"), CborUint(1), TreeToCbor(OversizeTree)}

IdleDecodeVars ==
    /\ dkind = "Address"
    /\ doc = SampleDocument("Address")
    /\ dsteps = 0
    /\ dres = None

InitDecodeVars ==
    /\ dkind \in DocumentKinds
    /\ doc = SampleDocument(dkind)
    /\ dsteps = 0
    /\ dres = None

DropType ==
    /\ dres = None
    /\ dsteps < MaxTampers
    /\ doc' = [doc EXCEPT !.types = {}]
    /\ dsteps' = dsteps + 1
    /\ UNCHANGED <<dkind, dres>>
    /\ UNCHANGED notDecode

Retag ==
    /\ dres = None
    /\ dsteps < MaxTampers
    /\ \E t \in ForeignTags(dkind) : doc' = [doc EXCEPT !.types = {t}]
    /\ dsteps' = dsteps + 1
    /\ UNCHANGED <<dkind, dres>>
    /\ UNCHANGED notDecode

DropAssertions ==
    /\ dres = None
    /\ dsteps < MaxTampers
    /\ \E p \in Predicates(dkind) :
           /\ objects_for_predicate(doc, p) # {}
           /\ doc' = [doc EXCEPT !.assertions = {a \in @ : a.pred # p}]
    /\ dsteps' = dsteps + 1
    /\ UNCHANGED <<dkind, dres>>
    /\ UNCHANGED notDecode

AddAssertion ==
    /\ dres = None
    /\ dsteps < MaxTampers
    /\ \E p \in Predicates(dkind), o \in ForeignObjects :
           doc' = add_assertion(doc, p, o)
    /\ dsteps' = dsteps + 1
    /\ UNCHANGED <<dkind, dres>>
    /\ UNCHANGED notDecode

ReplaceSubject ==
    /\ dres = None
    /\ dsteps < MaxTampers
    /\ \E c \in ForeignSubjects :
           /\ c # doc.subject
           /\ doc' = [doc EXCEPT !.subject = c]
    /\ dsteps' = dsteps + 1
    /\ UNCHANGED <<dkind, dres>>
    /\ UNCHANGED notDecode

DecodeDocument ==
    /\ dres = None
    /\ \/ /\ dkind = "Zewif"
          /\ \E walletOrder \in Enumerations(objects_for_predicate(doc, "wallet")),
                txOrder \in Enumerations(objects_for_predicate(doc, "transaction")),
                uninit \in BlockHashes :
                 dres' = Some(ZewifTryFrom(doc, walletOrder, txOrder, uninit))
       \/ /\ dkind # "Zewif"
          /\ dres' = Some(EntityTryFrom(dkind, doc))
    /\ UNCHANGED <<dkind, doc, dsteps>>
    /\ UNCHANGED notDecode

NextDecode ==
    \/ DropType
    \/ Retag
    \/ DropAssertions
    \/ AddAssertion
    \/ ReplaceSubject
    \/ DecodeDocument

(***************************************************************************)
(* Claims about decoding.                                                  *)
(***************************************************************************)
Decoded == IsSome(dres)
Result == Unwrap(dres)
\* the innermost entry of a failure's chain: the kind of error it is
ErrorKind(r) == r.err[Len(r.err)]
\* the document with the decoder's own tag in place of its type tags
Retagged == [doc EXCEPT !.types = {DeclaredTag(dkind)}]

\* C12: a document whose type tags do not include the exact tag of the
\* entity it is decoded as is refused with a type-mismatch error, whatever
\* its subject and assertions, for Address, SaplingSentOutput, SproutWitness
\* and Zewif.
C12_TypeTagCheckedFirst ==
    (Decoded /\ DeclaredTag(dkind) \notin doc.types) =>
        (~Result.ok /\ ErrorKind(Result) = "TypeMismatch")

\* a document that differs from a well-formed Address only in the case of its tag
C12_Witness ==
    /\ Decoded
    /\ dkind = "Address"
    /\ doc.types = {"address"}
    /\ AddressTryFrom(Retagged).ok
    /\ ~Result.ok
    /\ ErrorKind(Result) = "TypeMismatch"

\* C13: decoding fails when a required predicate occurs zero times or more
\* than once, and when an optional predicate occurs more than once.
C13_AssertionCountsEnforced ==
    (/\ Decoded
     /\ \/ \E p \in RequiredPredicates(dkind) : Cardinality(AssertionsFor(doc, p)) # 1
        \/ \E p \in OptionalPredicates(dkind) : Cardinality(AssertionsFor(doc, p)) > 1)
    => ~Result.ok

\* an Address document that is well formed but for its missing 'name'
C13_Witness ==
    /\ Decoded
    /\ dkind = "Address"
    /\ "Address" \in doc.types
    /\ AssertionsFor(doc, "name") = {}
    /\ Cardinality(AssertionsFor(doc, "address")) = 1
    /\ Result = Err(<<"name", "MissingAssertion">>)

\* the ambiguous cases of C13: a required and an optional predicate twice
C13_WitnessAmbiguous ==
    /\ Decoded
    /\ \/ /\ dkind = "SaplingSentOutput"
          /\ Cardinality(AssertionsFor(doc, "rcm")) = 2
          /\ Result = Err(<<"rcm", "AmbiguousAssertion">>)
       \/ /\ dkind = "SproutWitness"
          /\ Cardinality(AssertionsFor(doc, "cursor")) = 2
          /\ Result = Err(<<"cursor", "AmbiguousAssertion">>)

\* the names an entity's decoder gives to its steps
StepNames(kind) == {kind, "index", "id", "tree", "attachments"} \cup Predicates(kind)

\* C14: every failure of an entity's decode carries the name of the field or
\* predicate that was being decoded.
C14_ErrorsNameTheField ==
    (Decoded /\ ~Result.ok) =>
        (Len(Result.err) >= 2 /\ Result.err[1] \in StepNames(dkind))

\* the part of C14 that holds: Address, SaplingSentOutput and SproutWitness
C14_EntityErrorsNameTheField ==
    (Decoded /\ dkind # "Zewif" /\ ~Result.ok) =>
        (Len(Result.err) >= 2 /\ Result.err[1] \in StepNames(dkind))

\* C15: decoding a SproutWitness never yields a witness whose tree or cursor
\* holds more than depth 29 allows; such a snapshot, in the subject or under
\* 'cursor', is refused, with a structural-invariant error when it is what
\* stops the decode.
OversizeSubject ==
    doc.subject.major = "tree" /\ ~TreeFits(CborVal(doc.subject), INCREMENTAL_MERKLE_TREE_DEPTH)
OversizeCursor ==
    \E o \in objects_for_predicate(doc, "cursor") :
        o.subject.major = "tree" /\ ~TreeFits(CborVal(o.subject), INCREMENTAL_MERKLE_TREE_DEPTH)
C15_WitnessSubject ==
    /\ Decoded
    /\ dkind = "SproutWitness"
    /\ "SproutWitness" \in doc.types
    /\ OversizeSubject
    /\ Result = Err(<<"tree", "StructuralInvariant">>)

(***************************************************************************)
(* The binary decoder (parser) and ReceiverType::parse (receiver_type.rs). *)
(* An unsigned integer is held as its little-endian bytes, a u32 in 4 and  *)
(* a u64 or usize in 8, so that no width is lost.                          *)
(***************************************************************************)
Zeros(n) == [i \in 1..n |-> 0]
\* u64::from / usize as u64: the value zero-extended to 8 bytes
U64(bytes) == bytes \o Zeros(8 - Len(bytes))
\* a small number as a u64
U64Of(n) == U64(<<n>>)

\* the outcome of a read: its result and the cursor it leaves
Parsed(res, cursor) == [res |-> res, cur |-> cursor]

\* Parser: the next n bytes; the cursor moves only when they are all there
ParseBytes(buf, cur, n) ==
    IF cur + n > Len(buf) THEN Parsed(Err(<<"BufferUnderrun">>), cur)
    ELSE Parsed(Ok(SubSeq(buf, cur + 1, cur + n)), cur + n)

\* CompactSize: a marker byte below 253 is the value; 253, 254 and 255
\* announce a little-endian u16, u32 and u64
CompactSizeWidth(marker) ==
    IF marker < 253 THEN 0 ELSE IF marker = 253 THEN 2 ELSE IF marker = 254 THEN 4 ELSE 8
CompactSizeParse(buf, cur) ==
    LET marker == ParseBytes(buf, cur, 1) IN
    IF ~marker.res.ok THEN Parsed(marker.res, cur)
    ELSE IF CompactSizeWidth(marker.res.val[1]) = 0
    THEN Parsed(Ok(U64(marker.res.val)), marker.cur)
    ELSE LET body == ParseBytes(buf, marker.cur, CompactSizeWidth(marker.res.val[1])) IN
         IF ~body.res.ok THEN Parsed(body.res, cur)
         ELSE Parsed(Ok(U64(body.res.val)), body.cur)

\* the parse! macro: the read, its failure named after what was being read
parse(buf, cur, context) ==
    LET r == CompactSizeParse(buf, cur) IN Parsed(Context(r.res, context), r.cur)

ReceiverTypeParse_wildcard_orchard(buf, cur) ==
    LET byte == parse(buf, cur, "ReceiverType") IN
    IF ~byte.res.ok THEN byte
    ELSE Parsed(CASE byte.res.val = U64Of(0) -> Ok("P2PKH")
                [] byte.res.val = U64Of(1) -> Ok("P2SH")
                [] byte.res.val = U64Of(2) -> Ok("Sapling")
                [] OTHER -> Ok("Orchard"),
              byte.cur)
\* Parse for ReceiverType
ReceiverTypeParse(buf, cur) ==
    LET byte == parse(buf, cur, "ReceiverType") IN
    IF ~byte.res.ok THEN byte
    ELSE Parsed(CASE byte.res.val = U64Of(0) -> Ok("P2PKH")
                [] byte.res.val = U64Of(1) -> Ok("P2SH")
                [] byte.res.val = U64Of(2) -> Ok("Sapling")
                [] byte.res.val = U64Of(3) -> Ok("Orchard")
                [] OTHER -> Err(<<"Invalid ReceiverType byte">>),
              byte.cur)

(***************************************************************************)
(* Position (position.rs): a u32.                                          *)
(***************************************************************************)
\* From<u32> for Position
PositionFromU32(value) == value
\* From<Position> for u32
U32FromPosition(value) == value
\* From<usize> for Position: `value as u32` keeps the low 32 bits
PositionFromUsize(value) == SubSeq(value, 1, 4)

(***************************************************************************)
(* SpecParser: ReceiverType::parse, called again and again on a buffer,    *)
(* and the conversions of Position.                                        *)
(***************************************************************************)
ParserBytes == {0, 1, 2, 3, 4, 253}
\* one encoding in each wide form of a value above 3, of a value that needs
\* the form, and of a receiver type; and encodings cut short
ScenarioBuffers ==
    {<<253, 4, 0>>, <<253, 0, 1>>, <<253, 2, 0>>,
     <<254, 4, 0, 0, 0>>, <<254, 0, 0, 1, 0>>,
     <<255, 4, 0, 0, 0, 0, 0, 0, 0>>, <<255, 0, 0, 0, 0, 1, 0, 0, 0>>,
     <<255, 3, 0, 0, 0, 0, 0, 0, 0, 1>>,
     <<254, 1, 0>>, <<255, 3, 0, 0, 0, 0, 0, 0>>}
Buffers == UNION {[1..l -> ParserBytes] : l \in 0..MaxBufLen} \cup ScenarioBuffers

\* 0, 1, 2^31 and 2^32 - 1
U32Values == {<<0, 0, 0, 0>>, <<1, 0, 0, 0>>, <<0, 0, 0, 128>>, <<255, 255, 255, 255>>}
\* 0, 1, 2^32 - 1, 2^32, 2^32 + 5 and 2^64 - 1, on a 64-bit target
UsizeValues ==
    {U64Of(0), U64Of(1), <<255, 255, 255, 255, 0, 0, 0, 0>>,
     <<0, 0, 0, 0, 1, 0, 0, 0>>, <<5, 0, 0, 0, 1, 0, 0, 0>>,
     <<255, 255, 255, 255, 255, 255, 255, 255>>}

IdleParserVars ==
    /\ pbuf = <<>>
    /\ pcur = 0
    /\ pcall = None
    /\ pos = None
    /\ posin = None
    /\ posout = None

InitParserVars ==
    /\ pbuf \in Buffers
    /\ pcur = 0
    /\ pcall = None
    /\ pos = None
    /\ posin = None
    /\ posout = None

\* ReceiverType::parse(p)
ParseReceiverType ==
    /\ pcall' = Some([start |-> pcur, res |-> ReceiverTypeParse(pbuf, pcur).res])
    /\ pcur' = ReceiverTypeParse(pbuf, pcur).cur
    /\ UNCHANGED <<pbuf, pos, posin, posout>>
    /\ UNCHANGED notParser

\* Position::from(value: u32)
PositionOfU32 ==
    /\ \E value \in U32Values :
           /\ pos' = Some(PositionFromU32(value))
           /\ posin' = Some([type |-> "u32", value |-> value])
    /\ posout' = None
    /\ UNCHANGED <<pbuf, pcur, pcall>>
    /\ UNCHANGED notParser

\* Position::from(value: usize)
PositionOfUsize ==
    /\ \E value \in UsizeValues :
           /\ pos' = Some(PositionFromUsize(value))
           /\ posin' = Some([type |-> "usize", value |-> value])
    /\ posout' = None
    /\ UNCHANGED <<pbuf, pcur, pcall>>
    /\ UNCHANGED notParser

\* u32::from(position)
U32OfPosition ==
    /\ IsSome(pos)
    /\ posout' = Some(U32FromPosition(Unwrap(pos)))
    /\ UNCHANGED <<pbuf, pcur, pcall, pos, posin>>
    /\ UNCHANGED notParser

NextParser ==
    \/ ParseReceiverType
    \/ PositionOfU32
    \/ PositionOfUsize
    \/ U32OfPosition

(***************************************************************************)
(* Claims about the parser and Position.                                   *)
(***************************************************************************)
ReceiverTypes == <<"P2PKH", "P2SH", "Sapling", "Orchard">>
Call == Unwrap(pcall)
\* the compact-size value at the cursor's place before the call
ValueRead == CompactSizeParse(pbuf, Call.start).res

\* C17: parse reads one compact-size value and returns P2PKH for 0, P2SH for
\* 1, Sapling for 2 and Orchard for 3; for any other value, in any width, it
\* fails with the invalid-discriminant error.
C17_ParseByDiscriminant ==
    IsSome(pcall) =>
        IF ~ValueRead.ok THEN ~Call.res.ok
        ELSE IF \E n \in 0..3 : ValueRead.val = U64Of(n)
        THEN Call.res = Ok(ReceiverTypes[ValueRead.val[1] + 1])
        ELSE Call.res = Err(<<"Invalid ReceiverType byte">>)

\* a value of 2^32, in the nine-byte form, is refused
C17_Witness ==
    /\ IsSome(pcall)
    /\ pbuf = <<255, 0, 0, 0, 0, 1, 0, 0, 0>>
    /\ Call.start = 0
    /\ ValueRead = Ok(<<0, 0, 0, 0, 1, 0, 0, 0>>)
    /\ Call.res = Err(<<"Invalid ReceiverType byte">>)

\* the four receiver types, read one after another
C17_WitnessOrchard ==
    /\ IsSome(pcall)
    /\ Call.start = 1
    /\ pbuf = <<2, 3>>
    /\ Call.res = Ok("Orchard")

\* C18: a parse that fails leaves the cursor where it was before the call.
C18_FailedParseKeepsCursor ==
    (IsSome(pcall) /\ ~Call.res.ok) => pcur = Call.start

\* the part of C18 that holds: a parse that runs out of bytes moves nothing
C18_UnderrunKeepsCursor ==
    (IsSome(pcall) /\ ~ValueRead.ok) => pcur = Call.start

\* C19: u32::from(Position::from(n)) = n for every u32 n, and the value held
\* by Position::from(n) equals n for every usize n.
C19_PositionExact ==
    /\ (IsSome(posout) /\ Unwrap(posin).type = "u32") => Unwrap(posout) = Unwrap(posin).value
    /\ (IsSome(pos) /\ Unwrap(posin).type = "usize") => U64(Unwrap(pos)) = Unwrap(posin).value

\* the part of C19 that holds: the u32 round trip, and a usize below 2^32
C19_PositionExactWithin32Bits ==
    /\ (IsSome(posout) /\ Unwrap(posin).type = "u32") => Unwrap(posout) = Unwrap(posin).value
    /\ (IsSome(pos) /\ Unwrap(posin).type = "usize"
            /\ SubSeq(Unwrap(posin).value, 5, 8) = Zeros(4)) =>
           U64(Unwrap(pos)) = Unwrap(posin).value

(***************************************************************************)
(* The incremental Merkle tree and its witness.  A hash is a sequence of   *)
(* symbols: a leaf is one symbol, a parent the hashes of its children in   *)
(* order, and the root of an empty subtree of level d is d + 1 marks.      *)
(***************************************************************************)
combine(left, right) == left \o right
EmptyRoot(level) == [i \in 1..(level + 1) |-> "empty"]
EmptyTree == IncrementalMerkleTree(None, None, <<>>)

\* a tree of depth D is complete when it holds 2^D leaves
is_complete(tree, depth) ==
    /\ IsSome(tree.left)
    /\ IsSome(tree.right)
    /\ Len(tree.parents) = depth - 1
    /\ \A i \in 1..Len(tree.parents) : IsSome(tree.parents[i])

\* the carry of a completed pair up the levels, no further than level D - 1
RECURSIVE Carry(_, _, _, _)
Carry(parents, combined, level, depth) ==
    IF level > depth - 1 THEN parents
    ELSE IF level > Len(parents) THEN Append(parents, Some(combined))
    ELSE IF IsSome(parents[level])
    THEN Carry([parents EXCEPT ![level] = None],
               combine(Unwrap(parents[level]), combined), level + 1, depth)
    ELSE [parents EXCEPT ![level] = Some(combined)]

RECURSIVE CarryUnbounded(_, _, _)
CarryUnbounded(parents, combined, level) ==
    IF level > Len(parents) THEN Append(parents, Some(combined))
    ELSE IF IsSome(parents[level])
    THEN CarryUnbounded([parents EXCEPT ![level] = None],
                        combine(Unwrap(parents[level]), combined), level + 1)
    ELSE [parents EXCEPT ![level] = Some(combined)]

TreeAppend_unbounded(tree, node, depth) ==
    IF ~IsSome(tree.left) THEN Ok([tree EXCEPT !.left = Some(node)])
    ELSE IF ~IsSome(tree.right) THEN Ok([tree EXCEPT !.right = Some(node)])
    ELSE Ok(IncrementalMerkleTree(
                Some(node), None,
                CarryUnbounded(tree.parents,
                               combine(Unwrap(tree.left), Unwrap(tree.right)), 1)))
\* Append(leaf): the leaf becomes the left or the right of the insertion
\* level; a level that is already paired is combined and carried up first.
\* A complete tree takes no leaf.
TreeAppend(tree, node, depth) ==
    IF is_complete(tree, depth) THEN Err(<<"StructuralInvariant">>)
    ELSE IF ~IsSome(tree.left) THEN Ok([tree EXCEPT !.left = Some(node)])
    ELSE IF ~IsSome(tree.right) THEN Ok([tree EXCEPT !.right = Some(node)])
    ELSE Ok(IncrementalMerkleTree(
                Some(node), None,
                Carry(tree.parents, combine(Unwrap(tree.left), Unwrap(tree.right)),
                      1, depth)))

\* the hashes a tree lacks, in the order its levels ask for them: those
\* given, then the roots of empty subtrees
FillerNext(filler, level) == IF filler = <<>> THEN EmptyRoot(level) ELSE Head(filler)
FillerRest(filler) == IF filler = <<>> THEN <<>> ELSE Tail(filler)

\* Root(): the present values combined upward with the filler, up to depth D
RECURSIVE RootFrom(_, _, _, _, _)
RootFrom(tree, root, level, depth, filler) ==
    IF level > depth - 1 THEN root
    ELSE IF level <= Len(tree.parents) /\ IsSome(tree.parents[level])
    THEN RootFrom(tree, combine(Unwrap(tree.parents[level]), root), level + 1, depth, filler)
    ELSE RootFrom(tree, combine(root, FillerNext(filler, level)), level + 1, depth,
                  FillerRest(filler))
TreeRoot(tree, depth, filler) ==
    LET left == IF IsSome(tree.left) THEN Unwrap(tree.left) ELSE FillerNext(filler, 0)
        afterLeft == IF IsSome(tree.left) THEN filler ELSE FillerRest(filler)
        right == IF IsSome(tree.right) THEN Unwrap(tree.right) ELSE FillerNext(afterLeft, 0)
        afterRight == IF IsSome(tree.right) THEN afterLeft ELSE FillerRest(afterLeft)
    IN  RootFrom(tree, combine(left, right), 1, depth, afterRight)

\* the level of the next hash the tree lacks, after `skip` of them are given
RECURSIVE NextDepthFrom(_, _, _)
NextDepthFrom(parents, level, skip) ==
    IF level > Len(parents) THEN level + skip
    ELSE IF IsSome(parents[level]) THEN NextDepthFrom(parents, level + 1, skip)
    ELSE IF skip > 0 THEN NextDepthFrom(parents, level + 1, skip - 1)
    ELSE level
next_depth(tree, skip) ==
    LET afterLeft == IF IsSome(tree.left) THEN skip ELSE skip - 1
        afterRight == IF IsSome(tree.right) THEN afterLeft ELSE afterLeft - 1
    IN  IF ~IsSome(tree.left) /\ skip = 0 THEN 0
        ELSE IF ~IsSome(tree.right) /\ afterLeft = 0 THEN 0
        ELSE NextDepthFrom(tree.parents, 1, afterRight)

\* Create(tree_snapshot)
from_tree(tree) == with_fields(tree, <<>>, None)

\* the depth of the subtree the cursor collects
cursor_depth(witness) == next_depth(witness.tree, Len(witness.filled))

\* Extend(new_leaf): into the cursor when one is active, the cursor folded
\* into 'filled' as one hash once complete; else to 'filled' when the next
\* hash the path lacks is a leaf, else into a new cursor
WitnessAppend(witness, node, depth) ==
    IF IsSome(witness.cursor)
    THEN LET cursor == TreeAppend(Unwrap(witness.cursor), node, cursor_depth(witness)) IN
         IF ~cursor.ok THEN cursor
         ELSE IF is_complete(cursor.val, cursor_depth(witness))
         THEN Ok(with_fields(witness.tree,
                             Append(witness.filled,
                                    TreeRoot(cursor.val, cursor_depth(witness), <<>>)),
                             None))
         ELSE Ok(with_fields(witness.tree, witness.filled, Some(cursor.val)))
    ELSE IF cursor_depth(witness) >= depth THEN Err(<<"StructuralInvariant">>)
    ELSE IF cursor_depth(witness) = 0
    THEN Ok(with_fields(witness.tree, Append(witness.filled, <<node>>), None))
    ELSE Ok(with_fields(witness.tree, witness.filled,
                        Some(TreeAppend(EmptyTree, node, cursor_depth(witness)).val)))

\* the hashes the path takes for the levels the snapshot lacks: 'filled',
\* then the cursor's root
WitnessFiller(witness) ==
    IF IsSome(witness.cursor)
    THEN Append(witness.filled,
                TreeRoot(Unwrap(witness.cursor), cursor_depth(witness), <<>>))
    ELSE witness.filled

Sibling(node, known) == [node |-> node, known |-> known]

\* Path(): the sibling of the leaf, then one entry for each parent level of
\* the snapshot, then one for each level above it up to D - 1
RECURSIVE PathFrom(_, _, _, _)
PathFrom(tree, level, depth, filler) ==
    IF level <= Len(tree.parents)
    THEN IF IsSome(tree.parents[level])
         THEN <<Sibling(Unwrap(tree.parents[level]), TRUE)>>
                  \o PathFrom(tree, level + 1, depth, filler)
         ELSE <<Sibling(FillerNext(filler, level), FALSE)>>
                  \o PathFrom(tree, level + 1, depth, FillerRest(filler))
    ELSE IF level <= depth - 1
    THEN <<Sibling(FillerNext(filler, level), FALSE)>>
             \o PathFrom(tree, level + 1, depth, FillerRest(filler))
    ELSE <<>>
WitnessPath(witness, depth) ==
    LET filler == WitnessFiller(witness) IN
    IF ~IsSome(witness.tree.left) THEN None
    ELSE IF IsSome(witness.tree.right)
    THEN Some(<<Sibling(Unwrap(witness.tree.left), TRUE)>>
                  \o PathFrom(witness.tree, 1, depth, filler))
    ELSE Some(<<Sibling(FillerNext(filler, 0), FALSE)>>
                  \o PathFrom(witness.tree, 1, depth, FillerRest(filler)))

(***************************************************************************)
(* SpecWitness: leaves are appended to a tree of depth D; a witness is     *)
(* created at one of them, extended by the later ones, and asked its path. *)
(***************************************************************************)
Depths == 1..MaxDepth \cup {INCREMENTAL_MERKLE_TREE_DEPTH}
Leaves == {"a", "b"}

IdleWitnessVars ==
    /\ wdepth = INCREMENTAL_MERKLE_TREE_DEPTH
    /\ wtree = EmptyTree
    /\ appended = 0
    /\ wit = None
    /\ wpath = None

InitWitnessVars ==
    /\ wdepth \in Depths
    /\ wtree = EmptyTree
    /\ appended = 0
    /\ wit = None
    /\ wpath = None

\* a leaf is offered to the tree, and to the witness when there is one; a
\* complete tree refuses it and nothing changes
AppendLeaf ==
    /\ appended < MaxAppends
    /\ \E leaf \in Leaves :
           LET tree == TreeAppend(wtree, <<leaf>>, wdepth)
               witness == WitnessAppend(Unwrap(wit), <<leaf>>, wdepth)
           IN  IF ~tree.ok \/ (IsSome(wit) /\ ~witness.ok)
               THEN UNCHANGED <<wtree, appended, wit, wpath>>
               ELSE /\ wtree' = tree.val
                    /\ appended' = appended + 1
                    /\ wit' = IF IsSome(wit) THEN Some(witness.val) ELSE None
                    /\ wpath' = None
    /\ UNCHANGED wdepth
    /\ UNCHANGED notWitness

\* Create(tree_snapshot), right after the witnessed leaf was appended
CreateWitness ==
    /\ wit = None
    /\ appended > 0
    /\ wit' = Some(from_tree(wtree))
    /\ UNCHANGED <<wdepth, wtree, appended, wpath>>
    /\ UNCHANGED notWitness

AskPath ==
    /\ IsSome(wit)
    /\ wpath' = WitnessPath(Unwrap(wit), wdepth)
    /\ UNCHANGED <<wdepth, wtree, appended, wit>>
    /\ UNCHANGED notWitness

NextWitness ==
    \/ AppendLeaf
    \/ CreateWitness
    \/ AskPath

(***************************************************************************)
(* Claims about the witness.                                               *)
(***************************************************************************)
\* C20: for a tree of depth D, the path of a witness created at any leaf and
\* extended by any number of later leaves has exactly D entries, whether
\* 'filled' is empty or not and whether a cursor is active or not.
C20_PathHasDepthEntries ==
    /\ IsSome(wpath) => Len(Unwrap(wpath)) = wdepth
    /\ IsSome(wit) => (WitnessPath(Unwrap(wit), wdepth) # None)

\* depth 29, hashes in 'filled' and an active cursor
C20_Witness ==
    /\ wdepth = INCREMENTAL_MERKLE_TREE_DEPTH
    /\ IsSome(wpath)
    /\ Unwrap(wit).filled # <<>>
    /\ IsSome(Unwrap(wit).cursor)
    /\ Len(Unwrap(wpath)) = INCREMENTAL_MERKLE_TREE_DEPTH

\* a tree filled to its last leaf, the witness at its first
C20_WitnessFullTree ==
    /\ wdepth = 2
    /\ is_complete(wtree, wdepth)
    /\ IsSome(wpath)
    /\ Unwrap(wit).tree.parents = <<>>
    /\ ~IsSome(Unwrap(wit).tree.right)
    /\ Len(Unwrap(wit).filled) = 2
    /\ Len(Unwrap(wpath)) = 2

\* the witness follows the tree: its root, from the snapshot, 'filled' and
\* the cursor, is the root of the tree
C20_WitnessRootIsTreeRoot ==
    IsSome(wit) =>
        TreeRoot(Unwrap(wit).tree, wdepth, WitnessFiller(Unwrap(wit)))
            = TreeRoot(wtree, wdepth, <<>>)

\* the snapshots stay within their depth
C20_TreesFit ==
    /\ TreeFits(wtree, wdepth)
    /\ IsSome(wit) =>
           /\ TreeFits(Unwrap(wit).tree, wdepth)
           /\ IsSome(Unwrap(wit).cursor) => TreeFits(Unwrap(Unwrap(wit).cursor), wdepth)

(***************************************************************************)
(* ReceiverType as text and as CBOR (receiver_type.rs).  A value of the    *)
(* enum is named by its variant; a text is a sequence of characters.       *)
(***************************************************************************)
ReceiverTypeValues == {ReceiverTypes[i] : i \in 1..Len(ReceiverTypes)}

\* From<ReceiverType> for String
ReceiverTypeToString(value) ==
    CASE value = "P2PKH" -> <<"P", "2", "P", "K", "H">>
      [] value = "P2SH" -> <<"P", "2", "S", "H">>
      [] value = "Sapling" -> <<"S", "a", "p", "l", "i", "n", "g">>
      [] value = "Orchard" -> <<"O", "r", "c", "h", "a", "r", "d">>

ReceiverTypeTryFromString_lowercase_sapling(value) ==
    CASE value = <<"P", "2", "P", "K", "H">> -> Ok("P2PKH")
      [] value = <<"P", "2", "S", "H">> -> Ok("P2SH")
      [] value = <<"S", "a", "p", "l", "i", "n", "g">> -> Ok("Sapling")
      [] value = <<"s", "a", "p", "l", "i", "n", "g">> -> Ok("Sapling")
      [] value = <<"O", "r", "c", "h", "a", "r", "d">> -> Ok("Orchard")
      [] OTHER -> Err(<<"Invalid ReceiverType string">>)
\* TryFrom<String> for ReceiverType
ReceiverTypeTryFromString(value) ==
    CASE value = <<"P", "2", "P", "K", "H">> -> Ok("P2PKH")
      [] value = <<"P", "2", "S", "H">> -> Ok("P2SH")
      [] value = <<"S", "a", "p", "l", "i", "n", "g">> -> Ok("Sapling")
      [] value = <<"O", "r", "c", "h", "a", "r", "d">> -> Ok("Orchard")
      [] OTHER -> Err(<<"Invalid ReceiverType string">>)

\* From<ReceiverType> for CBOR
ReceiverTypeToCbor(value) == CborText(ReceiverTypeToString(value))

\* TryFrom<CBOR> for ReceiverType: try_into_text, then the text's conversion
ReceiverTypeTryFromCbor(cbor) ==
    IF cbor.major # "text" THEN Err(<<"WrongType">>)
    ELSE ReceiverTypeTryFromString(CborVal(cbor))

(***************************************************************************)
(* SpecLeaf: a Blob<N> or a ReceiverType is encoded, or an encoded form    *)
(* arrives from elsewhere; the form is then decoded.                       *)
(***************************************************************************)
LeafCodecs ==
    {<<"Blob", "cbor">>, <<"Blob", "envelope">>,
     <<"ReceiverType", "text">>, <<"ReceiverType", "cbor">>}

LeafValues(type, n) ==
    IF type = "Blob" THEN {d \in SliceInputs : Len(d) = n} ELSE ReceiverTypeValues

\* texts that are no receiver type: other letter case, cut short, padded,
\* empty, and the name of another pool
ForeignTexts ==
    {<<"s", "a", "p", "l", "i", "n", "g">>, <<"S", "A", "P", "L", "I", "N", "G">>,
     <<"p", "2", "p", "k", "h">>, <<"P", "2", "P", "K">>, <<"P", "2", "S", "H", " ">>,
     <<"o", "r", "c", "h", "a", "r", "d">>, <<"S", "p", "r", "o", "u", "t">>, <<>>}
TextInputs == {ReceiverTypeToString(v) : v \in ReceiverTypeValues} \cup ForeignTexts

\* CBOR values of another major type: the discriminant 2, the bytes of the
\* text 'Sapling', a text and an empty array
AsciiSapling == <<83, 97, 112, 108, 105, 110, 103>>
CborInputs(type) ==
    IF type = "Blob"
    THEN {CborBytes(d) : d \in SliceInputs}
             \cup {CborText(<<"0", "1">>), CborUint(1), CborArray(<<>>)}
    ELSE {CborText(t) : t \in TextInputs}
             \cup {CborUint(2), CborBytes(AsciiSapling), CborArray(<<>>)}

WireInputs(type, codec) ==
    CASE codec = "text" -> TextInputs
      [] codec = "cbor" -> CborInputs(type)
      [] codec = "envelope" -> {EnvelopeNew(c) : c \in CborInputs(type)}

LeafEncode(type, codec, value) ==
    CASE type = "Blob" /\ codec = "cbor" -> BlobToCbor(value)
      [] type = "Blob" /\ codec = "envelope" -> BlobToEnvelope(value)
      [] type = "ReceiverType" /\ codec = "text" -> ReceiverTypeToString(value)
      [] type = "ReceiverType" /\ codec = "cbor" -> ReceiverTypeToCbor(value)

LeafDecode(type, n, codec, wire) ==
    CASE type = "Blob" /\ codec = "cbor" -> BlobTryFromCbor(n, wire)
      [] type = "Blob" /\ codec = "envelope" -> BlobTryFromEnvelope(n, wire)
      [] type = "ReceiverType" /\ codec = "text" -> ReceiverTypeTryFromString(wire)
      [] type = "ReceiverType" /\ codec = "cbor" -> ReceiverTypeTryFromCbor(wire)

IdleLeafVars ==
    /\ ltype = "Blob"
    /\ ln = 0
    /\ lcodec = "cbor"
    /\ lsrc = None
    /\ lwire = None
    /\ lres = None

InitLeafVars ==
    /\ \E c \in LeafCodecs : ltype = c[1] /\ lcodec = c[2]
    /\ ln \in IF ltype = "Blob" THEN BlobSizes ELSE {0}
    /\ lsrc = None
    /\ lwire = None
    /\ lres = None

\* CBOR::from(value) / Envelope::from(value) / String::from(value)
EncodeLeaf ==
    /\ lwire = None
    /\ \E value \in LeafValues(ltype, ln) :
           /\ lsrc' = Some(value)
           /\ lwire' = Some(LeafEncode(ltype, lcodec, value))
    /\ UNCHANGED <<ltype, ln, lcodec, lres>>
    /\ UNCHANGED notLeaf

\* a form that some other writer produced
ReceiveLeaf ==
    /\ lwire = None
    /\ \E wire \in WireInputs(ltype, lcodec) : lwire' = Some(wire)
    /\ UNCHANGED <<ltype, ln, lcodec, lsrc, lres>>
    /\ UNCHANGED notLeaf

\* T::try_from(form)
DecodeLeaf ==
    /\ IsSome(lwire)
    /\ lres = None
    /\ lres' = Some(LeafDecode(ltype, ln, lcodec, Unwrap(lwire)))
    /\ UNCHANGED <<ltype, ln, lcodec, lsrc, lwire>>
    /\ UNCHANGED notLeaf

NextLeaf ==
    \/ EncodeLeaf
    \/ ReceiveLeaf
    \/ DecodeLeaf

(***************************************************************************)
(* Claims about the leaf codecs.                                           *)
(***************************************************************************)
\* the CBOR value the form carries
WireCbor == IF lcodec = "envelope" THEN Unwrap(lwire).subject ELSE Unwrap(lwire)

\* C21: a Blob<N> encodes to the byte string of its N bytes (alone, or as an
\* envelope's leaf); decoding succeeds exactly when the value is a byte
\* string of length N and returns those bytes, so decode(encode(v)) = v, and
\* any other length or major type is an error, never cut or padded.
C21_BlobCborExact ==
    ltype = "Blob" =>
        /\ (IsSome(lwire) /\ IsSome(lsrc)) =>
               /\ WireCbor = CborBytes(Unwrap(lsrc))
               /\ Len(CborVal(WireCbor)) = ln
               /\ lcodec = "envelope" => Unwrap(lwire) = Leaf(WireCbor)
        /\ IsSome(lres) =>
               /\ Unwrap(lres).ok <=> (WireCbor.major = "bytes" /\ Len(CborVal(WireCbor)) = ln)
               /\ Unwrap(lres).ok => Unwrap(lres).val = CborVal(WireCbor)
               /\ IsSome(lsrc) => Unwrap(lres) = Ok(Unwrap(lsrc))

\* a byte string one byte too long is refused
C21_Witness ==
    /\ ltype = "Blob"
    /\ ln = 1
    /\ lsrc = None
    /\ IsSome(lwire)
    /\ WireCbor = CborBytes(<<171, 255>>)
    /\ IsSome(lres)
    /\ ~Unwrap(lres).ok

\* the round trip through an envelope
C21_WitnessRoundTrip ==
    /\ ltype = "Blob"
    /\ lcodec = "envelope"
    /\ ln = ScenarioLen
    /\ lsrc = Some(ScenarioBytes)
    /\ lres = Some(Ok(ScenarioBytes))

\* the text of each receiver type
ReceiverTypeNames ==
    [P2PKH |-> <<"P", "2", "P", "K", "H">>,
     P2SH |-> <<"P", "2", "S", "H">>,
     Sapling |-> <<"S", "a", "p", "l", "i", "n", "g">>,
     Orchard |-> <<"O", "r", "c", "h", "a", "r", "d">>]
\* the form is a text (bare, or as a CBOR text value)
WireIsText == lcodec = "text" \/ Unwrap(lwire).major = "text"
WireText == IF lcodec = "text" THEN Unwrap(lwire) ELSE CborVal(Unwrap(lwire))

\* C22: each ReceiverType converts to its text ('P2PKH', 'P2SH', 'Sapling',
\* 'Orchard') and back to itself, as text and as CBOR; the four texts are
\* pairwise distinct; any other text, a different letter case included, and
\* any CBOR value that is no text fails to decode.
C22_ReceiverTypeTextExact ==
    ltype = "ReceiverType" =>
        /\ \A v, w \in ReceiverTypeValues :
               v # w => ReceiverTypeToString(v) # ReceiverTypeToString(w)
        /\ (IsSome(lwire) /\ IsSome(lsrc)) =>
               /\ WireIsText
               /\ WireText = ReceiverTypeNames[Unwrap(lsrc)]
        /\ IsSome(lres) =>
               /\ Unwrap(lres).ok <=>
                      (WireIsText /\ \E v \in ReceiverTypeValues : WireText = ReceiverTypeNames[v])
               /\ Unwrap(lres).ok => WireText = ReceiverTypeNames[Unwrap(lres).val]
               /\ IsSome(lsrc) => Unwrap(lres) = Ok(Unwrap(lsrc))

\* the text 'sapling', in lower case, is refused
C22_Witness ==
    /\ ltype = "ReceiverType"
    /\ lcodec = "cbor"
    /\ lsrc = None
    /\ lwire = Some(CborText(<<"s", "a", "p", "l", "i", "n", "g">>))
    /\ IsSome(lres)
    /\ ~Unwrap(lres).ok

\* the round trip of Orchard through CBOR
C22_WitnessRoundTrip ==
    /\ ltype = "ReceiverType"
    /\ lcodec = "cbor"
    /\ lsrc = Some("Orchard")
    /\ lres = Some(Ok("Orchard"))

\* a CBOR value that is no text is refused: the discriminant 2
C22_WitnessNotText ==
    /\ ltype = "ReceiverType"
    /\ lwire = Some(CborUint(2))
    /\ IsSome(lres)
    /\ ~Unwrap(lres).ok

(***************************************************************************)
(* The specifications.                                                   *)
(***************************************************************************)
InitZewif ==
    InitZewifVars /\ IdleBlobVars /\ IdleCodecVars /\ IdleDecodeVars /\ IdleParserVars
        /\ IdleWitnessVars /\ IdleLeafVars
SpecZewif == InitZewif /\ [][NextZewif]_vars

InitTxMap ==
    InitZewifVars /\ IdleBlobVars /\ IdleCodecVars /\ IdleDecodeVars /\ IdleParserVars
        /\ IdleWitnessVars /\ IdleLeafVars
SpecTxMap == InitTxMap /\ [][NextTxMap]_vars

InitBlob ==
    InitBlobVars /\ IdleZewifVars /\ IdleCodecVars /\ IdleDecodeVars /\ IdleParserVars
        /\ IdleWitnessVars /\ IdleLeafVars
SpecBlob == InitBlob /\ [][NextBlob]_vars

InitCodec ==
    InitCodecVars /\ IdleZewifVars /\ IdleBlobVars /\ IdleDecodeVars /\ IdleParserVars
        /\ IdleWitnessVars /\ IdleLeafVars
SpecCodec == InitCodec /\ [][NextCodec]_vars

InitDecode ==
    InitDecodeVars /\ IdleZewifVars /\ IdleBlobVars /\ IdleCodecVars /\ IdleParserVars
        /\ IdleWitnessVars /\ IdleLeafVars
SpecDecode == InitDecode /\ [][NextDecode]_vars

InitParser ==
    InitParserVars /\ IdleZewifVars /\ IdleBlobVars /\ IdleCodecVars /\ IdleDecodeVars
        /\ IdleWitnessVars /\ IdleLeafVars
SpecParser == InitParser /\ [][NextParser]_vars

InitWitness ==
    InitWitnessVars /\ IdleZewifVars /\ IdleBlobVars /\ IdleCodecVars /\ IdleDecodeVars
        /\ IdleParserVars /\ IdleLeafVars
SpecWitness == InitWitness /\ [][NextWitness]_vars

InitLeaf ==
    InitLeafVars /\ IdleZewifVars /\ IdleBlobVars /\ IdleCodecVars /\ IdleDecodeVars
        /\ IdleParserVars /\ IdleWitnessVars
SpecLeaf == InitLeaf /\ [][NextLeaf]_vars

====
